---- MODULE Spec2Model ----
(***************************************************************************)
(* A model of the gontainer service container: the registry's resolution  *)
(* and spawn engine, the reverse-order teardown, service functions, and   *)
(* the container facade (Start / Resolve / Invoke / Close / Done).        *)
(*                                                                         *)
(* Every goroutine that calls the container is a process with a call      *)
(* stack of frames; one action is one step of the frame on top of the     *)
(* stack.  Steps are cut where the code reads or writes shared state      *)
(* (factory.spawned, factory.outValues, registry.sequence, the container  *)
(* mutex, the close-once, the contexts, the service function channels).   *)
(***************************************************************************)
EXTENDS Naturals, Sequences, FiniteSets, TLC

\* Bounds of the model.
NumProcs == 2
MaxOps == 3
MaxParOps == 2
MaxFactories == 3
MaxQueue == 4
MaxChain == 26
MaxHandlers == 3

\* registry.go: stackDepthLimit.
stackDepthLimit == 100

VARIABLES
    factories,   \* registry.factories: the declaration list (fixed by New)
    handlers,    \* events.events: handlers subscribed per event name
    spawned,     \* factory.spawned, per factory
    outValues,   \* factory.outValues, per factory
    cancelled,   \* whether factory.cancel() was called, per factory
    sequence,    \* registry.sequence: the spawn order
    svc,         \* state of the goroutine of each started service function
    mutex,       \* container.mutex: 0, or the process holding it
    closer,      \* container.closer (sync.Once): "idle", "running", "done"
    ctxDone,     \* whether container.ctx is cancelled (Done() is closed)
    stack,       \* per process: its call stack of frames
    result,      \* per process: what its last finished call returned
    calls,       \* history: number of invocations of each factory function
    failures,    \* history: how many of them returned a non-nil error
    spawnedAt,   \* history: value of calls when factory.spawned was set
    injected,    \* history: the factories whose outputs the function received
    closeLog,    \* history: cancellations and Close hooks, in order
    triggered,   \* history: the events passed to events.Trigger, in order
    ops          \* history: number of API calls issued so far

vars == <<factories, handlers, spawned, outValues, cancelled, sequence, svc,
          mutex, closer, ctxDone, stack, result, calls, failures, spawnedAt, injected,
          closeLog, triggered, ops>>

Procs == 1..NumProcs

(***************************************************************************)
(* Types.  A requested type is a record: w is the wrapper ("plain",       *)
(* "optional", "multiple") and t the name of the (inner) type.            *)
(***************************************************************************)
Plain(n) == [w |-> "plain", t |-> n]

OptionalOf(n) == [w |-> "optional", t |-> n]

MultipleOf(n) == [w |-> "multiple", t |-> n]

ContextType == "context.Context"

\* Interface types with at least one method, and who implements them.
NonEmptyInterfaces == {ContextType, "I"}

ImplementsRel ==
    {<<"A", "I">>, <<"B", "I">>, <<"I", "I">>, <<ContextType, ContextType>>}

isNonEmptyInterface(t) == t \in NonEmptyInterfaces

isEmptyInterface(t) == t = "any"

isContextInterface(ty) == ty.w = "plain" /\ <<ty.t, ContextType>> \in ImplementsRel

isOptionalType(ty) == ty.w = "optional"

isMultipleType(ty) == ty.w = "multiple"

(***************************************************************************)
(* Factories.  outKinds[i] is what the function returns at output i:      *)
(*   "plain"    a value without Close method                              *)
(*   "closerE"  a value with a `Close() error` method                     *)
(*   "closer"   a value with a `Close()` method                           *)
(*   "svcE"     a function value of type func() error                     *)
(*   "svc"      a function value of type func()                           *)
(*   "closerP"  a value with a Close method that panics                   *)
(*   "fnInt"    a function value of type func() int                       *)
(*   "fnStrStr" a function value of type func(string) string              *)
(*   "fnMeth"   a value of a named type func() error with methods         *)
(*   "fnArg"    a function value of type func(string)                     *)
(*   "fnArgE"   a function value of type func(int) error                  *)
(*   "fnNamed"  a value of a named type func() error without methods      *)
(* outError tells whether the function has a trailing error output.       *)
(***************************************************************************)
NewFactory(ins, outs, kinds, outErr) ==
    [inTypes |-> ins, outTypes |-> outs, outKinds |-> kinds, outError |-> outErr]

NewService(t, kind) == NewFactory(<<>>, <<t>>, <<kind>>, FALSE)

\* The singletons that New registers ahead of the caller's factories.
BuiltinServices ==
    << NewService("Events", "plain"),
       NewService("Resolver", "plain"),
       NewService("Invoker", "plain") >>

\* The caller's factories: a service function that needs the context and an
\* I, the producer of A (which implements I), and a factory that can fail.
UserFactories ==
    << NewFactory(<<Plain(ContextType), Plain("I")>>, <<"any">>, <<"svcE">>, FALSE),
       NewFactory(<<>>, <<"A">>, <<"closerE">>, FALSE),
       NewFactory(<<OptionalOf("X")>>, <<"any">>, <<"closer">>, TRUE) >>

New(user) == BuiltinServices \o user

\* The factories whose function panics when it is called: the producers of
\* the type P.
Panics(f) == factories[f].outTypes = <<"P">>

\* What the function of factory f resolves through the Resolver it is given
\* (as the factory of TestResolverService does): the type Y.
ResolvesInside(f) ==
    IF \E i \in 1..Len(factories[f].inTypes) : factories[f].inTypes[i] = Plain("Resolver")
    THEN <<Plain("Y")>>
    ELSE <<>>

Registries == {New(UserFactories)}

Fs == 1..Len(factories)

\* A produced value: output o of the g-th invocation of factory f.
Value(f, o, g) == <<f, o, g>>

KindOf(v) == factories[v[1]].outKinds[v[2]]

\* The kinds of value that have neither a Close() error nor a Close() method,
\* as the two type assertions of closeFactories see them.
Closeless == {"plain", "fnInt", "fnStrStr", "fnMeth", "fnArg", "fnArgE", "fnNamed"}

ContainerStarting == "ContainerStarting"

ContainerStarted == "ContainerStarted"

ContainerClosing == "ContainerClosing"

ContainerClosed == "ContainerClosed"

UnhandledPanic == "UnhandledPanic"

\* NewEvent: an event and the arguments it carries (an error is carried as
\* the sequence of the joined errors, nil as the empty sequence).
NewEvent(name, args) == [name |-> name, args |-> args]

EventNames == {ContainerStarting, ContainerStarted, ContainerClosing, ContainerClosed}

NoHandlers == [n \in EventNames |-> <<>>]

\* An error: the sentinel (or message) it wraps, and where it arose.
E(tag, f, o) == [e |-> tag, f |-> f, o |-> o]

\* A subscribed handler function: the types of its parameters, whether it
\* is a func(...any), and its output: "none" without an error output, "nil"
\* or "err" for the error it returns.
HandlerFn(ins, anyVar, out) == [ins |-> ins, anyVar |-> anyVar, out |-> out]

\* isNillableType: pointers, slices, maps, channels and interfaces.
isNillableType(t) == t = "ptr"

\* callTypedHandler, lines 97-120: the first min(len(args), NumIn) event
\* arguments are checked against the parameter types; an untyped nil
\* passes for a nillable type only, any other value when it is assignable.
ArgTypeMismatch(h, args) ==
    \E i \in 1..Len(args) :
       /\ i <= Len(h.ins)
       /\ IF args[i] = "nil" THEN ~isNillableType(h.ins[i]) ELSE args[i] # h.ins[i]

\* getCallOutError: the error output of the handler function, if any.
getCallOutError(h, k) == IF h.out = "err" THEN <<E("HandlerError", 0, k)>> ELSE <<>>

\* The handler registered by Subscribe for the function h, called for an
\* event with the arguments args, k being its place among the handlers:
\* callAnyVarHandler always calls h, callTypedHandler returns the mismatch
\* error without calling it.
callHandler(h, args, k) ==
    IF ~h.anyVar /\ ArgTypeMismatch(h, args)
    THEN [invoked |-> FALSE, errs |-> <<E("HandlerArgTypeMismatchError", 0, k)>>]
    ELSE [invoked |-> TRUE, errs |-> getCallOutError(h, k)]

\* Subscriptions: none, or a failing handler on one lifecycle event.
HandlerSetups ==
    {NoHandlers} \cup
    {[NoHandlers EXCEPT ![n] = <<HandlerFn(<<>>, FALSE, "nil"),
                                 HandlerFn(<<>>, FALSE, "err")>>] : n \in EventNames}

(***************************************************************************)
(* registry.findFactoriesFor: `records` gets one entry per matching       *)
(* output, `indices` one entry per factory with a matching output.        *)
(***************************************************************************)
MatchesType(resultType, serviceType) ==
    \/ resultType = serviceType
    \/ /\ isNonEmptyInterface(serviceType)
       /\ <<resultType, serviceType>> \in ImplementsRel

MatchingOutputs(f, t) ==
    LET outs == factories[f].outTypes
        Idx[k \in 0..Len(outs)] ==
            IF k = 0 THEN <<>>
            ELSE IF MatchesType(outs[k], t) THEN Append(Idx[k-1], k) ELSE Idx[k-1]
    IN  Idx[Len(outs)]

findFactoriesFor(t) ==
    LET Acc[k \in 0..Len(factories)] ==
            IF k = 0 THEN [records |-> <<>>, indices |-> <<>>]
            ELSE LET idxs == MatchingOutputs(k, t)
                     prev == Acc[k-1]
                 IN  [records |-> prev.records \o [j \in 1..Len(idxs) |-> k],
                      indices |-> IF Len(idxs) > 0
                                  THEN Append(prev.indices, idxs)
                                  ELSE prev.indices]
    IN  Acc[Len(factories)]

(***************************************************************************)
(* Errors, results and frames.                                            *)
(***************************************************************************)

Ok(vals) == [kind |-> "ok", vals |-> vals, errs |-> <<>>]

Err(errs) == [kind |-> "err", vals |-> <<>>, errs |-> errs]

\* The panic raised by the function of factory f (o = 0) or by the Close
\* method of its output o.
PanicAt(f, o) == [kind |-> "panic", vals |-> <<>>, errs |-> <<E("panic", f, o)>>]

Panic(tag) == [kind |-> "panic", vals |-> <<>>, errs |-> <<E(tag, 0, 0)>>]

NoResult == [op |-> "none", ty |-> Plain(""), pre |-> {}, c0 |-> <<>>, h0 |-> 0,
             v0 |-> <<>>, v |-> <<>>,
             kind |-> "ok", vals |-> <<>>, errs |-> <<>>]

\* A frame: op is the function, ph its position; the other fields are its
\* locals (f a factory, ty / tys requested types, i, o and n loop indexes
\* and lengths, acc collected values, kind / errs a pending result) and, as
\* history, the factories that were spawned (pre), the invocation counts
\* (c0) and the length of the close log (h0) when the call was made.  For
\* Resolve, v is what the variable behind the pointer holds.
Frame(op, ph) ==
    [op |-> op, ph |-> ph, f |-> 0, ty |-> Plain(""), tys |-> <<>>, i |-> 0,
     o |-> 0, n |-> 0, acc |-> <<>>, kind |-> "ok", errs |-> <<>>,
     pre |-> {}, c0 |-> <<>>, h0 |-> 0, v |-> <<>>]

Top(p) == stack[p][Len(stack[p])]

Front(s) == SubSeq(s, 1, Len(s) - 1)

WithTop(s, fr) == Append(Front(s), fr)

OnTop(p, op, ph) ==
    /\ stack[p] # <<>>
    /\ Top(p).op = op
    /\ Top(p).ph = ph

\* Lines 81-88 of events.Trigger: the errors of the handlers hs called with
\* the arguments args, joined in the order of the handlers.
triggerErrors(hs, args) ==
    LET Acc[k \in 0..Len(hs)] ==
            IF k = 0 THEN <<>>
            ELSE Acc[k-1] \o callHandler(hs[k], args, k).errs
    IN  Acc[Len(hs)]

\* events.Trigger for a lifecycle event: the errors of the handlers
\* subscribed under the name.  The handlers subscribed to the lifecycle
\* events take no parameters, so the arguments of the event play no part.
Trigger(name) == triggerErrors(handlers[name], <<>>)

\* A variant of the loop of spawnFactories that goes on after a failure and
\* collects the errors.
spawnFactoriesJoin(fr, res) ==
    IF res.kind = "ok" THEN [fr EXCEPT !.i = @ + 1]
    ELSE IF res.kind = "panic"
    THEN [fr EXCEPT !.ph = "exit", !.kind = "panic", !.errs = res.errs]
    ELSE [fr EXCEPT !.i = @ + 1, !.kind = "err", !.errs = @ \o res.errs]

\* The frame of Start when spawnFactory returned res to the loop of
\* spawnFactories (registry.go lines 155-162): the loop goes on, or it
\* returns the error, and Start triggers ContainerStarted and returns
\* (lines 230-243); a panic unwinds to the deferred calls.
spawnFactoriesStep(fr, res) ==
    IF res.kind = "ok" THEN [fr EXCEPT !.i = @ + 1]
    ELSE IF res.kind = "panic"
    THEN [fr EXCEPT !.ph = "exit", !.kind = "panic", !.errs = res.errs]
    ELSE LET te == Trigger(ContainerStarted)
         IN  [fr EXCEPT !.ph = "exit", !.kind = "err",
                        !.errs = IF te # <<>> THEN te ELSE res.errs]

\* A variant of Resolve that assigns whatever resolveService returned.
\* The dynamic type of a stored value is the declared type of its output,
\* which findFactoriesFor has matched with the type t, unless the value is
\* the handle of a started service function: a funcResult, which reflection
\* assigns to the empty interface only.
Assignable(v, t) == v \notin DOMAIN svc \/ isEmptyInterface(t)

NotAssignable(vals, t) == \E k \in 1..Len(vals) : ~Assignable(vals[k], t)

\* resolver.Resolve, line 83: value.Set(result) panics when the resolved
\* value is not assignable to the type of the variable.
setResult(ty, res) ==
    IF res.kind = "ok" /\ ty.w = "plain" /\ NotAssignable(res.vals, ty.t)
    THEN Panic("reflect: value is not assignable")
    ELSE res

resolveSetAlways(stk, res, r) ==
    IF Len(stk) = 1 THEN [r EXCEPT !.set = <<res.vals>>] ELSE r

\* resolver.Resolve, lines 79-84: the assignment through the pointer, made
\* only when resolveService returned no error; r is how the callers go on.
resolveSet(stk, res, r) ==
    IF res.kind = "ok" /\ Len(stk) = 1 THEN [r EXCEPT !.set = <<res.vals>>] ELSE r

\* How a caller frame goes on when its callee returned res.  The result is
\* the caller's stack afterwards, and whether the whole call has returned.
RECURSIVE Ret(_, _)
Ret(stk, res) ==
    IF stk = <<>>
    THEN [stack |-> <<>>, final |-> TRUE, res |-> res, evs |-> <<>>, set |-> <<>>]
    ELSE
    LET fr == stk[Len(stk)]
        goEmit(frame, evs) ==
            [stack |-> WithTop(stk, frame), final |-> FALSE, res |-> res, evs |-> evs,
             set |-> <<>>]
        go(frame) == goEmit(frame, <<>>)
    IN  CASE fr.op = "spawn" /\ fr.ph = "called" ->
                \* registry.spawnFactory, back from funcValue.Call of a
                \* function that has used the Resolver
                IF res.kind = "ok"
                THEN go([fr EXCEPT !.ph = "setSpawned", !.acc = res.vals])
                ELSE Ret(Front(stk), res)
          [] fr.op = "spawn" ->
                \* registry.spawnFactory, back from resolveService
                IF res.kind = "ok"
                THEN go([fr EXCEPT !.i = @ + 1, !.acc = Append(@, res.vals)])
                ELSE Ret(Front(stk), res)
          [] fr.op = "func" ->
                \* the function of a factory, back from resolver.Resolve
                go([fr EXCEPT !.ph = "return", !.kind = res.kind, !.errs = res.errs])
          [] fr.op = "rbt" ->
                \* registry.resolveByType, back from spawnFactory
                IF res.kind = "ok" THEN go(fr) ELSE Ret(Front(stk), res)
          [] fr.op = "Resolve" ->
                \* resolver.Resolve, back from resolveService: value.Set
                \* when err is nil (for a Resolve made by Invoke the
                \* variable is a local of Invoke)
                LET set == setResult(fr.ty, res)
                IN  resolveSet(stk, set, Ret(Front(stk), set))
          [] fr.op = "Invoke" ->
                \* invoker.Invoke, back from resolver.Resolve
                IF res.kind = "ok"
                THEN go([fr EXCEPT !.i = @ + 1, !.acc = Append(@, res.vals)])
                ELSE Ret(Front(stk), res)
          [] fr.op = "Start" /\ fr.ph = "spawn" ->
                \* container.Start, back from spawnFactories: an error is
                \* carried by the ContainerStarted event
                goEmit(spawnFactoriesStep(fr, res),
                       IF res.kind = "err"
                       THEN <<NewEvent(ContainerStarted, res.errs)>> ELSE <<>>)
          [] fr.op = "Start" /\ fr.ph = "closing" ->
                \* container.Start, back from the deferred c.Close().  A
                \* panic of that Close replaces what Start was returning;
                \* when it comes from the Close of line 216, the recovery
                \* of lines 206-212 publishes it and raises it again.
                IF res.kind = "panic"
                THEN LET r == Ret(Front(stk), res)
                     IN  [r EXCEPT !.evs =
                            (IF fr.kind = "err"
                             THEN <<NewEvent(UnhandledPanic, res.errs)>>
                             ELSE <<>>) \o @]
                ELSE Ret(Front(stk), [kind |-> fr.kind, vals |-> <<>>, errs |-> fr.errs])
          [] fr.op = "Close" ->
                \* the closer.Do body, back from closeFactories: the
                \* ContainerClosed event is triggered when closeErr is nil
                LET te == Trigger(ContainerClosed)
                IN  IF res.kind = "panic"
                    THEN go([fr EXCEPT !.ph = "finish", !.kind = "panic",
                                       !.errs = res.errs])
                    ELSE IF res.errs # <<>>
                    THEN go([fr EXCEPT !.ph = "finish", !.errs = res.errs])
                    ELSE goEmit([fr EXCEPT !.ph = "finish", !.errs = te],
                                <<NewEvent(ContainerClosed, <<>>)>>)
          [] OTHER -> go(fr)

\* The step of process p that triggers the events evs and then makes its
\* top frame return res.
ReturnEmit(p, evs, res) ==
    LET r == Ret(Front(stack[p]), res)
        bottom == stack[p][1]
    IN  /\ stack' = [stack EXCEPT ![p] = r.stack]
        /\ triggered' = triggered \o evs \o r.evs
        /\ result' = [result EXCEPT ![p] =
               IF r.final
               THEN [op |-> bottom.op, ty |-> bottom.ty, pre |-> bottom.pre,
                     c0 |-> bottom.c0, h0 |-> bottom.h0,
                     v0 |-> bottom.v,
                     v |-> IF r.set # <<>> THEN r.set[1] ELSE bottom.v,
                     kind |-> r.res.kind, vals |-> r.res.vals, errs |-> r.res.errs]
               ELSE @]

Return(p, res) == ReturnEmit(p, <<>>, res)

PushEmit(p, evs, caller, callee) ==
    /\ stack' = [stack EXCEPT ![p] = Append(WithTop(@, caller), callee)]
    /\ triggered' = triggered \o evs
    /\ UNCHANGED result

Push(p, caller, callee) == PushEmit(p, <<>>, caller, callee)

GotoEmit(p, evs, fr) ==
    /\ stack' = [stack EXCEPT ![p] = WithTop(@, fr)]
    /\ triggered' = triggered \o evs
    /\ UNCHANGED result

Goto(p, fr) == GotoEmit(p, <<>>, fr)

(***************************************************************************)
(* New: the state a container is in when New has returned it.             *)
(***************************************************************************)
InitWith(registries, setups) ==
    /\ factories \in registries
    /\ handlers \in setups
    /\ spawned = [f \in Fs |-> FALSE]
    /\ outValues = [f \in Fs |-> <<>>]
    /\ cancelled = [f \in Fs |-> FALSE]
    /\ sequence = <<>>
    /\ svc = <<>>
    /\ mutex = 0
    /\ closer = "idle"
    /\ ctxDone = FALSE
    /\ stack = [p \in Procs |-> <<>>]
    /\ result = [p \in Procs |-> NoResult]
    /\ calls = [f \in Fs |-> 0]
    /\ failures = [f \in Fs |-> 0]
    /\ spawnedAt = [f \in Fs |-> 0]
    /\ injected = [f \in Fs |-> {}]
    /\ closeLog = <<>>
    /\ triggered = <<>>
    /\ ops = 0

Init == InitWith(Registries, HandlerSetups)

(***************************************************************************)
(* registry.spawnFactory                                                  *)
(***************************************************************************)
\* Go frames that a model frame stands for (getStackDepth counts them).
GoFrames(fr) ==
    CASE fr.op = "rbt" -> 3        \* resolveService, resolveX, resolveByType
      [] fr.op = "Start" -> 2      \* Start, spawnFactories
      [] fr.op = "func" -> 3       \* Value.Call, Value.call, the function
      [] OTHER -> 1

\* getStackDepth: the frames of the goroutine, the caller's own included.
getStackDepth(stk) ==
    LET Sum[k \in 0..Len(stk)] ==
            IF k = 0 THEN 2 ELSE Sum[k-1] + GoFrames(stk[k])
    IN  Sum[Len(stk)]

\* resolver.Resolve: the frame of a call for the type ty.
ResolveFrame(ty) ==
    [Frame("Resolve", "call") EXCEPT !.ty = ty, !.pre = {f \in Fs : spawned[f]},
                                     !.c0 = calls]

SpawnFrame(f) == [Frame("spawn", "check") EXCEPT !.f = f]

RbtFrame(ty) == [Frame("rbt", "next") EXCEPT !.ty = ty, !.i = 1]

\* The context of factory f, as a value.
CtxValue(f) == Value(f, 0, 0)

\* What reflection tells about an output value: whether its kind is Func,
\* whether its type is a named one, the number of its methods and of its
\* parameters, and the types of its results.
FuncShape(named, numMethod, numIn, outs) ==
    [func |-> TRUE, named |-> named, numMethod |-> numMethod, numIn |-> numIn,
     outs |-> outs]

ShapeOf(kind) ==
    CASE kind = "svcE" -> FuncShape(FALSE, 0, 0, <<"error">>)
      [] kind = "svc" -> FuncShape(FALSE, 0, 0, <<>>)
      [] kind = "fnInt" -> FuncShape(FALSE, 0, 0, <<"int">>)
      [] kind = "fnStrStr" -> FuncShape(FALSE, 0, 1, <<"string">>)
      [] kind = "fnMeth" -> FuncShape(TRUE, 1, 0, <<"error">>)
      [] kind = "fnArg" -> FuncShape(FALSE, 0, 1, <<>>)
      [] kind = "fnArgE" -> FuncShape(FALSE, 0, 1, <<"error">>)
      [] kind = "fnNamed" -> FuncShape(TRUE, 0, 0, <<"error">>)
      [] OTHER -> [FuncShape(FALSE, 0, 0, <<>>) EXCEPT !.func = FALSE]

\* A variant of isServiceFunc that looks at the parameters and at the name
\* of the type as well.
isServiceFuncExact(kind) ==
    LET s == ShapeOf(kind)
    IN  /\ s.func
        /\ s.numMethod = 0
        /\ s.numIn = 0
        /\ ~s.named
        /\ s.outs \in {<<>>, <<"error">>}

\* isServiceFunc: the value (unboxed from `any`) is of kind Func, its type
\* has no methods, and it has no result or the one result error.  The
\* parameters are not looked at.
isServiceFunc(kind) ==
    LET s == ShapeOf(kind)
    IN  /\ s.func
        /\ s.numMethod = 0
        /\ s.outs \in {<<>>, <<"error">>}

\* startServiceFunc, lines 486-504: the type switch starts a func() error
\* or a func() and fails for every other type.
startServiceFunc(kind) ==
    LET s == ShapeOf(kind)
    IN  ~s.named /\ s.numIn = 0 /\ s.outs \in {<<>>, <<"error">>}

\* A variant without the depth guard of lines 338-341.
SpawnCheckNoGuard(p) ==
    /\ OnTop(p, "spawn", "check")
    /\ LET fr == Top(p) IN
       IF spawned[fr.f]
       THEN Return(p, Ok(<<>>))
       ELSE Goto(p, [fr EXCEPT !.ph = "args", !.i = 1])
    /\ UNCHANGED <<factories, handlers, spawned, outValues, cancelled, sequence,
                   svc, mutex, closer, ctxDone, calls, failures, spawnedAt, injected, closeLog, ops>>

\* A variant without the spawned check of line 344.
SpawnCheckAlways(p) ==
    /\ OnTop(p, "spawn", "check")
    /\ LET fr == Top(p) IN
       IF getStackDepth(stack[p]) >= stackDepthLimit
       THEN Return(p, Err(<<E("ErrStackLimitReached", fr.f, 0)>>))
       ELSE Goto(p, [fr EXCEPT !.ph = "args", !.i = 1])
    /\ UNCHANGED <<factories, handlers, spawned, outValues, cancelled, sequence,
                   svc, mutex, closer, ctxDone, calls, failures, spawnedAt, injected, closeLog, ops>>

\* Lines 338-346: the depth guard and the spawned check.
SpawnCheck(p) ==
    /\ OnTop(p, "spawn", "check")
    /\ LET fr == Top(p) IN
       IF getStackDepth(stack[p]) >= stackDepthLimit
       THEN Return(p, Err(<<E("ErrStackLimitReached", fr.f, 0)>>))
       ELSE IF spawned[fr.f]
       THEN Return(p, Ok(<<>>))
       ELSE Goto(p, [fr EXCEPT !.ph = "args", !.i = 1])
    /\ UNCHANGED <<factories, handlers, spawned, outValues, cancelled, sequence,
                   svc, mutex, closer, ctxDone, calls, failures, spawnedAt, injected, closeLog, ops>>

\* Lines 348-365: one input; the context is the factory's own.
SpawnArg(p) ==
    /\ OnTop(p, "spawn", "args")
    /\ LET fr == Top(p)
           ins == factories[fr.f].inTypes
       IN  /\ fr.i <= Len(ins)
           /\ IF isContextInterface(ins[fr.i])
              THEN Goto(p, [fr EXCEPT !.i = @ + 1,
                                      !.acc = Append(@, <<CtxValue(fr.f)>>)])
              ELSE Push(p, fr, RbtFrame(ins[fr.i]))
    /\ UNCHANGED <<factories, handlers, spawned, outValues, cancelled, sequence,
                   svc, mutex, closer, ctxDone, calls, failures, spawnedAt, injected, closeLog, ops>>

\* The factories that produced the input values (the context is no output).
Producers(inValues) ==
    UNION {{inValues[i][k][1] : k \in {x \in 1..Len(inValues[i]) :
                                          inValues[i][x][2] # 0}} :
           i \in 1..Len(inValues)}

\* A variant that marks the factory spawned also when its function failed.
SpawnCallMarkFailed(p) ==
    /\ OnTop(p, "spawn", "args")
    /\ LET fr == Top(p)
           fac == factories[fr.f]
       IN  /\ fr.i > Len(fac.inTypes)
           /\ calls' = [calls EXCEPT ![fr.f] = @ + 1]
           /\ injected' = [injected EXCEPT ![fr.f] = Producers(fr.acc)]
           /\ \E failed \in (IF fac.outError THEN BOOLEAN ELSE {FALSE}) :
                IF failed
                THEN /\ Return(p, Err(<<E("ErrFactoryReturnedError", fr.f, 0)>>))
                     /\ failures' = [failures EXCEPT ![fr.f] = @ + 1]
                     /\ spawned' = [spawned EXCEPT ![fr.f] = TRUE]
                     /\ UNCHANGED svc
                ELSE LET vals == [o \in 1..Len(fac.outTypes) |->
                                      Value(fr.f, o, calls[fr.f] + 1)]
                         started == {vals[o] : o \in {x \in 1..Len(fac.outTypes) :
                                                      isServiceFunc(fac.outKinds[x])}}
                     IN  /\ svc' = svc @@ [h \in started |-> "running"]
                         /\ Goto(p, [fr EXCEPT !.ph = "setSpawned", !.acc = vals])
                         /\ UNCHANGED <<failures, spawned>>
    /\ UNCHANGED <<factories, handlers, outValues, cancelled, sequence,
                   mutex, closer, ctxDone, spawnedAt, closeLog, ops>>

\* Line 368: funcValue.Call panics, before the function runs, when an
\* argument is not assignable to its parameter.
CallMismatch(fr) ==
    LET ins == factories[fr.f].inTypes
    IN  /\ fr.i > Len(ins)
        /\ \E i \in 1..Len(ins) :
              ins[i].w = "plain" /\ NotAssignable(fr.acc[i], ins[i].t)

\* Lines 367-392: the call of the factory function, its error output, and
\* the start of the service functions among its outputs, in their order; the
\* factory fails at the first one that startServiceFunc refuses.
SpawnCall(p) ==
    /\ OnTop(p, "spawn", "args")
    /\ ResolvesInside(Top(p).f) = <<>> \/ CallMismatch(Top(p))
    /\ LET fr == Top(p)
           fac == factories[fr.f]
       IN  /\ fr.i > Len(fac.inTypes)
           /\ calls' = IF CallMismatch(fr) THEN calls
                       ELSE [calls EXCEPT ![fr.f] = @ + 1]
           /\ injected' = IF CallMismatch(fr) THEN injected
                          ELSE [injected EXCEPT ![fr.f] = Producers(fr.acc)]
           /\ IF CallMismatch(fr)
              THEN /\ Return(p, Panic("reflect: value is not assignable"))
                   /\ UNCHANGED <<failures, svc>>
              ELSE IF Panics(fr.f)
              THEN /\ Return(p, PanicAt(fr.f, 0))
                   /\ UNCHANGED <<failures, svc>>
              ELSE
              \E failed \in (IF fac.outError THEN BOOLEAN ELSE {FALSE}) :
                IF failed
                THEN /\ Return(p, Err(<<E("ErrFactoryReturnedError", fr.f, 0)>>))
                     /\ failures' = [failures EXCEPT ![fr.f] = @ + 1]
                     /\ UNCHANGED svc
                ELSE LET vals == [o \in 1..Len(fac.outTypes) |->
                                      Value(fr.f, o, calls[fr.f] + 1)]
                         funcs == {x \in 1..Len(fac.outTypes) :
                                      isServiceFunc(fac.outKinds[x])}
                         bad == {x \in funcs : ~startServiceFunc(fac.outKinds[x])}
                         started == {vals[o] : o \in {x \in funcs :
                                                         \A b \in bad : x < b}}
                     IN  /\ svc' = svc @@ [h \in started |-> "running"]
                         /\ IF bad = {}
                            THEN Goto(p, [fr EXCEPT !.ph = "setSpawned", !.acc = vals])
                            ELSE Return(p, Err(<<E("failed to start factory func", fr.f,
                                                   CHOOSE b \in bad : \A c \in bad : b <= c)>>))
                         /\ UNCHANGED failures
    /\ UNCHANGED <<factories, handlers, spawned, outValues, cancelled, sequence,
                   mutex, closer, ctxDone, spawnedAt, closeLog, ops>>

\* Line 367 for a factory whose function uses the Resolver it is given: the
\* function is called and calls resolver.Resolve for the type it needs.
SpawnCallResolving(p) ==
    /\ OnTop(p, "spawn", "args")
    /\ ResolvesInside(Top(p).f) # <<>>
    /\ ~CallMismatch(Top(p))
    /\ LET fr == Top(p)
           ty == ResolvesInside(fr.f)[1]
       IN  /\ fr.i > Len(factories[fr.f].inTypes)
           /\ calls' = [calls EXCEPT ![fr.f] = @ + 1]
           /\ injected' = [injected EXCEPT ![fr.f] = Producers(fr.acc)]
           /\ stack' = [stack EXCEPT ![p] =
                  WithTop(@, [fr EXCEPT !.ph = "called"]) \o
                  <<[Frame("func", "resolve") EXCEPT !.f = fr.f, !.n = calls[fr.f] + 1],
                    ResolveFrame(ty), RbtFrame(ty)>>]
    /\ UNCHANGED <<factories, handlers, spawned, outValues, cancelled, sequence,
                   svc, mutex, closer, ctxDone, result, failures, spawnedAt,
                   closeLog, triggered, ops>>

\* The function returns: the error of Resolve, wrapped by spawnFactory
\* (lines 377-381), or else its outputs.
FuncReturn(p) ==
    /\ OnTop(p, "func", "return")
    /\ LET fr == Top(p)
           fac == factories[fr.f]
       IN  IF fr.kind = "ok"
           THEN /\ Return(p, Ok([o \in 1..Len(fac.outTypes) |-> Value(fr.f, o, fr.n)]))
                /\ UNCHANGED failures
           ELSE /\ Return(p, [kind |-> fr.kind, vals |-> <<>>,
                               errs |-> <<E("ErrFactoryReturnedError", fr.f, 0)>> \o fr.errs])
                /\ failures' = [failures EXCEPT ![fr.f] = @ + 1]
    /\ UNCHANGED <<factories, handlers, spawned, outValues, cancelled, sequence,
                   svc, mutex, closer, ctxDone, calls, spawnedAt, injected,
                   closeLog, ops>>

\* A variant of setSpawned that first waits for the service functions that
\* the factory has started.
SpawnSetSpawnedWaits(p) ==
    /\ OnTop(p, "spawn", "setSpawned")
    /\ LET fr == Top(p) IN
       /\ \A o \in 1..Len(fr.acc) :
            fr.acc[o] \in DOMAIN svc => svc[fr.acc[o]] # "running"
       /\ spawned' = [spawned EXCEPT ![fr.f] = TRUE]
       /\ spawnedAt' = [spawnedAt EXCEPT ![fr.f] = calls[fr.f]]
       /\ Goto(p, [fr EXCEPT !.ph = "setOutValues"])
    /\ UNCHANGED <<factories, handlers, outValues, cancelled, sequence, svc,
                   mutex, closer, ctxDone, calls, failures, injected, closeLog,
                   ops>>

\* Line 395: factory.setSpawned(true).
SpawnSetSpawned(p) ==
    /\ OnTop(p, "spawn", "setSpawned")
    /\ LET fr == Top(p) IN
       /\ spawned' = [spawned EXCEPT ![fr.f] = TRUE]
       /\ spawnedAt' = [spawnedAt EXCEPT ![fr.f] = calls[fr.f]]
       /\ Goto(p, [fr EXCEPT !.ph = "setOutValues"])
    /\ UNCHANGED <<factories, handlers, outValues, cancelled, sequence, svc,
                   mutex, closer, ctxDone, calls, failures, injected, closeLog,
                   ops>>

\* Line 398: factory.setOutValues(outValues).
SpawnSetOutValues(p) ==
    /\ OnTop(p, "spawn", "setOutValues")
    /\ LET fr == Top(p) IN
       /\ outValues' = [outValues EXCEPT ![fr.f] = fr.acc]
       /\ Goto(p, [fr EXCEPT !.ph = "append"])
    /\ UNCHANGED <<factories, handlers, spawned, cancelled, sequence, svc,
                   mutex, closer, ctxDone, calls, failures, spawnedAt, injected, closeLog, ops>>

\* A variant that puts the factory at the head of the sequence.
SpawnAppendFront(p) ==
    /\ OnTop(p, "spawn", "append")
    /\ sequence' = <<Top(p).f>> \o sequence
    /\ Return(p, Ok(<<>>))
    /\ UNCHANGED <<factories, handlers, spawned, outValues, cancelled, svc,
                   mutex, closer, ctxDone, calls, failures, spawnedAt, injected,
                   closeLog, ops>>

\* Lines 400-405: the append to registry.sequence, under registry.mutex.
SpawnAppend(p) ==
    /\ OnTop(p, "spawn", "append")
    /\ sequence' = Append(sequence, Top(p).f)
    /\ Return(p, Ok(<<>>))
    /\ UNCHANGED <<factories, handlers, spawned, outValues, cancelled, svc,
                   mutex, closer, ctxDone, calls, failures, spawnedAt, injected, closeLog, ops>>

\* The goroutine of startServiceFunc: the function returns (an error or
\* nil) and the goroutine blocks sending the result on the channel.
SvcReturn(h) ==
    /\ h \in DOMAIN svc
    /\ svc[h] = "running"
    /\ \E r \in (IF KindOf(h) = "svcE" THEN {"ok", "err"} ELSE {"ok"}) :
         svc' = [svc EXCEPT ![h] = r]
    /\ UNCHANGED <<factories, handlers, spawned, outValues, cancelled, sequence,
                   mutex, closer, ctxDone, stack, result, calls, failures, spawnedAt, injected,
                   closeLog, triggered, ops>>

(***************************************************************************)
(* registry.resolveService / resolveByType                                *)
(***************************************************************************)
\* resolveOptional, resolveMultiple, resolveRegular on the found services.
resolveResult(ty, services) ==
    IF isOptionalType(ty)
    THEN Ok(IF services = <<>> THEN <<>> ELSE <<services[1]>>)
    ELSE IF isMultipleType(ty)
    THEN Ok(services)
    ELSE IF services = <<>>
    THEN Err(<<E("ErrServiceNotResolved", 0, 0)>>)
    ELSE Ok(<<services[1]>>)

\* newOptionalValue (Value.Set) and newMultipleValue (reflect.Append) panic
\* when a value is not assignable to the inner type of the box.
boxedResult(ty, services) ==
    LET r == resolveResult(ty, services)
    IN  IF (isOptionalType(ty) \/ isMultipleType(ty)) /\ NotAssignable(r.vals, ty.t)
        THEN Panic("reflect: value is not assignable")
        ELSE r

\* A variant of the loop of resolveByType that, at its end, spawns the
\* factories of the registry that are not spawned yet.
RbtNextEager(p) ==
    /\ OnTop(p, "rbt", "next")
    /\ LET fr == Top(p)
           found == findFactoriesFor(fr.ty.t)
           rest == {f \in Fs : ~spawned[f] /\ failures[f] = 0}
       IN  IF fr.i <= Len(found.records)
           THEN Push(p, [fr EXCEPT !.ph = "read"], SpawnFrame(found.records[fr.i]))
           ELSE IF rest # {}
           THEN Push(p, fr, SpawnFrame(CHOOSE f \in rest : \A g \in rest : f <= g))
           ELSE Return(p, resolveResult(fr.ty, fr.acc))
    /\ UNCHANGED <<factories, handlers, spawned, outValues, cancelled, sequence,
                   svc, mutex, closer, ctxDone, calls, failures, spawnedAt, injected, closeLog, ops>>

\* Lines 283-290: the next found factory is spawned, or the loop ends.
RbtNext(p) ==
    /\ OnTop(p, "rbt", "next")
    /\ LET fr == Top(p)
           found == findFactoriesFor(fr.ty.t)
       IN  IF fr.i <= Len(found.records)
           THEN Push(p, [fr EXCEPT !.ph = "read"], SpawnFrame(found.records[fr.i]))
           ELSE Return(p, boxedResult(fr.ty, fr.acc))
    /\ UNCHANGED <<factories, handlers, spawned, outValues, cancelled, sequence,
                   svc, mutex, closer, ctxDone, calls, failures, spawnedAt, injected, closeLog, ops>>

\* Lines 292-296: the outputs of the spawned factory are read and picked.
RbtRead(p) ==
    /\ OnTop(p, "rbt", "read")
    /\ LET fr == Top(p)
           found == findFactoriesFor(fr.ty.t)
           vals == outValues[found.records[fr.i]]
       IN  IF \/ fr.i > Len(found.indices)
              \/ \E k \in 1..Len(found.indices[fr.i]) :
                    found.indices[fr.i][k] > Len(vals)
           THEN Return(p, Panic("index out of range"))
           ELSE LET idx == found.indices[fr.i]
                IN  Goto(p, [fr EXCEPT !.ph = "next", !.i = @ + 1,
                                 !.acc = @ \o [k \in 1..Len(idx) |-> vals[idx[k]]]])
    /\ UNCHANGED <<factories, handlers, spawned, outValues, cancelled, sequence,
                   svc, mutex, closer, ctxDone, calls, failures, spawnedAt, injected, closeLog, ops>>

(***************************************************************************)
(* container.Start                                                        *)
(***************************************************************************)
\* Lines 221-228: the write lock and the ContainerStarting event.
StartEnter(p) ==
    /\ OnTop(p, "Start", "enter")
    /\ mutex = 0
    /\ mutex' = p
    /\ LET fr == Top(p)
           te == Trigger(ContainerStarting)
           ev == <<NewEvent(ContainerStarting, <<>>)>>
       IN  IF te # <<>>
           THEN GotoEmit(p, ev, [fr EXCEPT !.ph = "exit", !.kind = "err", !.errs = te])
           ELSE GotoEmit(p, ev, [fr EXCEPT !.ph = "spawn", !.i = 1])
    /\ UNCHANGED <<factories, handlers, spawned, outValues, cancelled, sequence,
                   svc, closer, ctxDone, calls, failures, spawnedAt, injected, closeLog, ops>>

\* registry.spawnFactories (lines 155-165) and, at its end, the
\* ContainerStarted event (lines 233-243).
StartSpawn(p) ==
    /\ OnTop(p, "Start", "spawn")
    /\ LET fr == Top(p)
           te == Trigger(ContainerStarted)
       IN  IF fr.i <= Len(factories)
           THEN Push(p, fr, SpawnFrame(fr.i))
           ELSE GotoEmit(p, <<NewEvent(ContainerStarted, fr.errs)>>,
                         [fr EXCEPT !.ph = "exit",
                                    !.errs = IF te # <<>> THEN te ELSE @,
                                    !.kind = IF te # <<>> THEN "err" ELSE @])
    /\ UNCHANGED <<factories, handlers, spawned, outValues, cancelled, sequence,
                   svc, mutex, closer, ctxDone, calls, failures, spawnedAt, injected, closeLog, ops>>

\* The deferred calls of Start (lines 206-223), last first: the unlock, then
\* c.Close() when Start returns an error; a panic is recovered, published
\* as UnhandledPanic and, after c.Close(), raised again.
StartExit(p) ==
    /\ OnTop(p, "Start", "exit")
    /\ mutex' = 0
    /\ LET fr == Top(p) IN
       IF fr.kind = "ok"
       THEN Return(p, Ok(<<>>))
       ELSE PushEmit(p, IF fr.kind = "panic"
                        THEN <<NewEvent(UnhandledPanic, fr.errs)>> ELSE <<>>,
                     [fr EXCEPT !.ph = "closing"], Frame("Close", "enter"))
    /\ UNCHANGED <<factories, handlers, spawned, outValues, cancelled, sequence,
                   svc, closer, ctxDone, calls, failures, spawnedAt, injected, closeLog, ops>>

(***************************************************************************)
(* container.Close and registry.closeFactories                            *)
(***************************************************************************)
\* A variant that returns the error that the once body left in `err`.
CloseResultOfBody(errs) == IF errs = <<>> THEN Ok(<<>>) ELSE Err(errs)

\* What Close returns when the once body left errs in `err`: line 290.
CloseResult(errs) == Ok(<<>>)

\* A variant without the once: every call runs the body.
CloseEnterNoOnce(p) ==
    /\ OnTop(p, "Close", "enter")
    /\ mutex = 0
    /\ mutex' = p
    /\ closer' = "running"
    /\ LET fr == Top(p)
           te == Trigger(ContainerClosing)
       IN  IF te # <<>>
           THEN GotoEmit(p, <<NewEvent(ContainerClosing, <<>>)>>,
                         [fr EXCEPT !.ph = "finish", !.errs = te])
           ELSE PushEmit(p, <<NewEvent(ContainerClosing, <<>>)>>,
                         [fr EXCEPT !.ph = "closing"],
                         [Frame("cf", "cancel") EXCEPT !.n = Len(sequence)])
    /\ UNCHANGED <<factories, handlers, spawned, outValues, cancelled, sequence,
                   svc, ctxDone, calls, failures, spawnedAt, injected, closeLog, ops>>

\* A variant without the lock and without the waiting: a call that finds the
\* once taken returns at once.
CloseEnterNoWait(p) ==
    /\ OnTop(p, "Close", "enter")
    /\ LET fr == Top(p)
           te == Trigger(ContainerClosing)
       IN  IF closer = "idle"
           THEN /\ closer' = "running"
                /\ mutex' = p
                /\ IF te # <<>>
                   THEN GotoEmit(p, <<NewEvent(ContainerClosing, <<>>)>>,
                                 [fr EXCEPT !.ph = "finish", !.errs = te])
                   ELSE PushEmit(p, <<NewEvent(ContainerClosing, <<>>)>>,
                                 [fr EXCEPT !.ph = "closing"],
                                 [Frame("cf", "cancel") EXCEPT !.n = Len(sequence)])
           ELSE /\ Return(p, Ok(<<>>))
                /\ UNCHANGED <<closer, mutex>>
    /\ UNCHANGED <<factories, handlers, spawned, outValues, cancelled, sequence,
                   svc, ctxDone, calls, failures, spawnedAt, injected, closeLog, ops>>

\* Lines 257-271: the write lock, the once, the ContainerClosing event and
\* the entry into closeFactories (line 174 reads len(r.sequence)).
CloseEnter(p) ==
    /\ OnTop(p, "Close", "enter")
    /\ mutex = 0
    /\ closer # "running"
    /\ mutex' = p
    /\ LET fr == Top(p)
           te == Trigger(ContainerClosing)
       IN  IF closer = "idle"
           THEN /\ closer' = "running"
                /\ IF te # <<>>
                   THEN GotoEmit(p, <<NewEvent(ContainerClosing, <<>>)>>,
                                 [fr EXCEPT !.ph = "finish", !.errs = te])
                   ELSE PushEmit(p, <<NewEvent(ContainerClosing, <<>>)>>,
                                 [fr EXCEPT !.ph = "closing"],
                                 [Frame("cf", "cancel") EXCEPT !.n = Len(sequence)])
           ELSE /\ Goto(p, [fr EXCEPT !.ph = "await"])
                /\ UNCHANGED closer
    /\ UNCHANGED <<factories, handlers, spawned, outValues, cancelled, sequence,
                   svc, ctxDone, calls, failures, spawnedAt, injected, closeLog, ops>>

\* A variant that walks the sequence first to last.
cfIndexForward(n, k) == k + 1

\* Line 174: the index into the sequence at iteration k (from 0) of n.
cfIndex(n, k) == n - k

LogCancel(f) == [a |-> "cancel", f |-> f, o |-> 0, e |-> FALSE]

LogHook(f, o, e) == [a |-> "hook", f |-> f, o |-> o, e |-> e]

\* A variant that leaves the context of the factory alone.
CfCancelSkipped(p) ==
    /\ OnTop(p, "cf", "cancel")
    /\ LET fr == Top(p) IN
       IF fr.i = fr.n
       THEN Return(p, IF fr.errs = <<>> THEN Ok(<<>>) ELSE Err(fr.errs))
       ELSE LET f == sequence[cfIndex(fr.n, fr.i)]
                vals == outValues[f]
            IN  IF vals = <<>>
                THEN Goto(p, [fr EXCEPT !.i = @ + 1])
                ELSE Goto(p, [fr EXCEPT !.ph = "hooks", !.f = f, !.o = 1,
                                        !.acc = vals])
    /\ UNCHANGED <<factories, handlers, spawned, outValues, sequence, svc,
                   mutex, closer, ctxDone, calls, failures, spawnedAt, injected, ops,
                   cancelled, closeLog>>

\* A variant that cancels the contexts of all the factories at once.
CfCancelAll(p) ==
    /\ OnTop(p, "cf", "cancel")
    /\ LET fr == Top(p) IN
       IF fr.i = fr.n
       THEN /\ Return(p, IF fr.errs = <<>> THEN Ok(<<>>) ELSE Err(fr.errs))
            /\ UNCHANGED <<cancelled, closeLog>>
       ELSE LET f == sequence[cfIndex(fr.n, fr.i)]
                vals == outValues[f]
            IN  /\ cancelled' = [g \in Fs |-> cancelled[g] \/ \E k \in 1..Len(sequence) : sequence[k] = g]
                /\ closeLog' = Append(closeLog, LogCancel(f))
                /\ IF vals = <<>>
                   THEN Goto(p, [fr EXCEPT !.i = @ + 1])
                   ELSE Goto(p, [fr EXCEPT !.ph = "hooks", !.f = f, !.o = 1,
                                           !.acc = vals])
    /\ UNCHANGED <<factories, handlers, spawned, outValues, sequence, svc,
                   mutex, closer, ctxDone, calls, failures, spawnedAt, injected,
                   ops>>

\* A variant that cancels the contexts of all the registered factories.
CfCancelRegistry(p) ==
    /\ OnTop(p, "cf", "cancel")
    /\ LET fr == Top(p) IN
       IF fr.i = fr.n
       THEN /\ Return(p, IF fr.errs = <<>> THEN Ok(<<>>) ELSE Err(fr.errs))
            /\ UNCHANGED <<cancelled, closeLog>>
       ELSE LET f == sequence[cfIndex(fr.n, fr.i)]
                vals == outValues[f]
            IN  /\ cancelled' = [g \in Fs |-> TRUE]
                /\ closeLog' = Append(closeLog, LogCancel(f))
                /\ IF vals = <<>>
                   THEN Goto(p, [fr EXCEPT !.i = @ + 1])
                   ELSE Goto(p, [fr EXCEPT !.ph = "hooks", !.f = f, !.o = 1,
                                           !.acc = vals])
    /\ UNCHANGED <<factories, handlers, spawned, outValues, sequence, svc,
                   mutex, closer, ctxDone, calls, failures, spawnedAt, injected,
                   ops>>

\* Lines 174-183: the next factory of the sequence, last first: its context
\* is cancelled and its output values are read; line 206 at the end.
CfCancel(p) ==
    /\ OnTop(p, "cf", "cancel")
    /\ LET fr == Top(p) IN
       IF fr.i = fr.n
       THEN /\ Return(p, IF fr.errs = <<>> THEN Ok(<<>>) ELSE Err(fr.errs))
            /\ UNCHANGED <<cancelled, closeLog>>
       ELSE LET f == sequence[cfIndex(fr.n, fr.i)]
                vals == outValues[f]
            IN  /\ cancelled' = [cancelled EXCEPT ![f] = TRUE]
                /\ closeLog' = Append(closeLog, LogCancel(f))
                /\ IF vals = <<>>
                   THEN Goto(p, [fr EXCEPT !.i = @ + 1])
                   ELSE Goto(p, [fr EXCEPT !.ph = "hooks", !.f = f, !.o = 1,
                                           !.acc = vals])
    /\ UNCHANGED <<factories, handlers, spawned, outValues, sequence, svc,
                   mutex, closer, ctxDone, calls, failures, spawnedAt, injected, ops>>

\* A variant in which closeFactories returns at the first failing hook.
CfHookStopOnError(p) ==
    /\ OnTop(p, "cf", "hooks")
    /\ LET fr == Top(p)
           v == fr.acc[fr.o]
           kind == KindOf(v)
       IN  \E e \in BOOLEAN :
             /\ CASE isServiceFunc(kind) ->
                       /\ svc[v] \in {"ok", "err"}
                       /\ e = (svc[v] = "err")
                       /\ svc' = [svc EXCEPT ![v] = "done"]
                  [] kind = "closerE" -> UNCHANGED svc
                  [] OTHER -> e = FALSE /\ UNCHANGED svc
             /\ closeLog' = IF kind = "plain" THEN closeLog
                            ELSE Append(closeLog, LogHook(fr.f, fr.o, e))
             /\ IF e
                THEN Return(p, Err(<<E("CloseError", fr.f, fr.o)>>))
                ELSE IF fr.o < Len(fr.acc)
                THEN Goto(p, [fr EXCEPT !.o = @ + 1])
                ELSE Goto(p, [fr EXCEPT !.ph = "cancel", !.i = @ + 1])
    /\ UNCHANGED <<factories, handlers, spawned, outValues, cancelled, sequence,
                   mutex, closer, ctxDone, calls, failures, spawnedAt, injected,
                   ops>>

\* Lines 185-201: the Close hooks of one output value.  The handle of a
\* service function (funcResult.Close, line 413) receives from the channel:
\* it blocks until the function has returned.
CfHook(p) ==
    /\ OnTop(p, "cf", "hooks")
    /\ LET fr == Top(p)
           v == fr.acc[fr.o]
           kind == KindOf(v)
       IN  IF kind = "closerP"
           THEN /\ closeLog' = Append(closeLog, LogHook(fr.f, fr.o, FALSE))
                /\ Return(p, PanicAt(fr.f, fr.o))
                /\ UNCHANGED svc
           ELSE
           \E e \in BOOLEAN :
             /\ CASE isServiceFunc(kind) ->
                       /\ svc[v] \in {"ok", "err"}
                       /\ e = (svc[v] = "err")
                       /\ svc' = [svc EXCEPT ![v] = "done"]
                  [] kind = "closerE" -> UNCHANGED svc
                  [] OTHER -> e = FALSE /\ UNCHANGED svc
             /\ closeLog' = IF kind \in Closeless THEN closeLog
                            ELSE Append(closeLog, LogHook(fr.f, fr.o, e))
             /\ LET errs == IF e THEN Append(fr.errs, E("CloseError", fr.f, fr.o))
                            ELSE fr.errs
                IN  IF fr.o < Len(fr.acc)
                    THEN Goto(p, [fr EXCEPT !.o = @ + 1, !.errs = errs])
                    ELSE Goto(p, [fr EXCEPT !.ph = "cancel", !.i = @ + 1,
                                            !.errs = errs])
    /\ UNCHANGED <<factories, handlers, spawned, outValues, cancelled, sequence,
                   mutex, closer, ctxDone, calls, failures, spawnedAt, injected, ops>>

\* Line 265: the deferred c.cancel() at the end of the once body.
CloseFinish(p) ==
    /\ OnTop(p, "Close", "finish")
    /\ closer' = "done"
    /\ ctxDone' = TRUE
    /\ Goto(p, [Top(p) EXCEPT !.ph = "await"])
    /\ UNCHANGED <<factories, handlers, spawned, outValues, cancelled, sequence,
                   svc, mutex, calls, failures, spawnedAt, injected, closeLog, ops>>

\* A variant in which the recovery of Close does not raise the panic again.
CloseAwaitSwallow(p) ==
    /\ OnTop(p, "Close", "await")
    /\ ctxDone
    /\ mutex' = 0
    /\ LET fr == Top(p) IN
       IF fr.kind = "panic"
       THEN ReturnEmit(p, <<NewEvent(UnhandledPanic, fr.errs)>>, CloseResult(fr.errs))
       ELSE Return(p, CloseResult(fr.errs))
    /\ UNCHANGED <<factories, handlers, spawned, outValues, cancelled, sequence,
                   svc, closer, ctxDone, calls, failures, spawnedAt, injected, closeLog, ops>>

\* Lines 287-290: the wait for the container context, the result, and the
\* deferred unlock.  A panic of the once body skips the wait: it is
\* recovered, published as UnhandledPanic and raised again (lines 250-255).
CloseAwait(p) ==
    /\ OnTop(p, "Close", "await")
    /\ ctxDone
    /\ mutex' = 0
    /\ LET fr == Top(p) IN
       IF fr.kind = "panic"
       THEN ReturnEmit(p, <<NewEvent(UnhandledPanic, fr.errs)>>,
                       [kind |-> "panic", vals |-> <<>>, errs |-> fr.errs])
       ELSE Return(p, CloseResult(fr.errs))
    /\ UNCHANGED <<factories, handlers, spawned, outValues, cancelled, sequence,
                   svc, closer, ctxDone, calls, failures, spawnedAt, injected, closeLog, ops>>

(***************************************************************************)
(* invoker.Invoke                                                         *)
(***************************************************************************)
\* One parameter is resolved through the Resolver, or the function is called.
InvokeArg(p) ==
    /\ OnTop(p, "Invoke", "args")
    /\ LET fr == Top(p) IN
       IF fr.i <= Len(fr.tys)
       THEN /\ stack' = [stack EXCEPT ![p] =
                            @ \o <<ResolveFrame(fr.tys[fr.i]), RbtFrame(fr.tys[fr.i])>>]
            /\ UNCHANGED <<result, triggered>>
       ELSE Return(p, Ok(fr.acc))
    /\ UNCHANGED <<factories, handlers, spawned, outValues, cancelled, sequence,
                   svc, mutex, closer, ctxDone, calls, failures, spawnedAt, injected, closeLog, ops>>

(***************************************************************************)
(* The callers of the container.  The main goroutine calls Start, Resolve *)
(* and Invoke one at a time, on a container that nobody has asked to      *)
(* close; Close may be called by every goroutine, by several at once and  *)
(* also while Start runs (once Start holds the lock: a Close that         *)
(* overtakes Start makes it a Start on a closed container).               *)
(***************************************************************************)
Main == 1

ResolveTypes == {Plain("A"), Plain("any"), Plain("X")}

InvokeSignatures == {<<Plain("I"), MultipleOf("any")>>}

Idle(p) == stack[p] = <<>>

InCall(p, names) == stack[p] # <<>> /\ stack[p][1].op \in names

Quiet == closer = "idle" /\ \A q \in Procs : Idle(q)

Begin(p, stk) ==
    /\ Idle(p)
    /\ ops < MaxOps
    /\ ops' = ops + 1
    /\ stack' = [stack EXCEPT ![p] = stk]
    /\ UNCHANGED <<factories, handlers, spawned, outValues, cancelled, sequence,
                   svc, mutex, closer, ctxDone, result, calls, failures, spawnedAt, injected,
                   closeLog, triggered>>

CallStart(p) ==
    Quiet /\ Begin(p, <<[Frame("Start", "enter") EXCEPT
                            !.c0 = calls, !.h0 = Len(closeLog)]>>)

\* The values that the variable passed to Resolve may hold: the zero value
\* of its type, or a value that the caller has stored in it.
Stored == Value(0, 0, 1)

Pointees == {<<>>, <<Stored>>}

CallResolve(p, ty) ==
    /\ Quiet
    /\ \E v \in Pointees :
          Begin(p, <<[ResolveFrame(ty) EXCEPT !.v = v], RbtFrame(ty)>>)

CallInvoke(p, tys) ==
    Quiet /\ Begin(p, <<[Frame("Invoke", "args") EXCEPT
                            !.tys = tys, !.i = 1,
                            !.pre = {f \in Fs : spawned[f]}, !.c0 = calls]>>)

CallClose(p) ==
    /\ \A q \in Procs : ~InCall(q, {"Resolve", "Invoke"})
    /\ \A q \in Procs : ~OnTop(q, "Start", "enter")
    /\ Begin(p, <<[Frame("Close", "enter") EXCEPT
                     !.c0 = calls, !.h0 = Len(closeLog)]>>)

Step(p) ==
    \/ SpawnCheck(p) \/ SpawnArg(p) \/ SpawnCall(p)
    \/ SpawnSetSpawned(p) \/ SpawnSetOutValues(p) \/ SpawnAppend(p)
    \/ RbtNext(p) \/ RbtRead(p) \/ InvokeArg(p)
    \/ StartEnter(p) \/ StartSpawn(p) \/ StartExit(p)
    \/ CloseEnter(p) \/ CfCancel(p) \/ CfHook(p) \/ CloseFinish(p) \/ CloseAwait(p)

Next ==
    \/ CallStart(Main)
    \/ \E ty \in ResolveTypes : CallResolve(Main, ty)
    \/ \E tys \in InvokeSignatures : CallInvoke(Main, tys)
    \/ \E p \in Procs : CallClose(p)
    \/ \E p \in Procs : Step(p)
    \/ \E h \in DOMAIN svc : SvcReturn(h)

Spec == Init /\ [][Next]_vars

(***************************************************************************)
(* The same callers on other registries: a dependent declared ahead of    *)
(* what it needs (through Optional, through Multiple and directly), a     *)
(* factory with two outputs that implement one interface, and two         *)
(* factories that can fail independently of each other.                   *)
(***************************************************************************)
DependentFirst ==
    << NewFactory(<<OptionalOf("A"), MultipleOf("I")>>, <<"F">>, <<"svc">>, FALSE),
       NewFactory(<<>>, <<"A">>, <<"closerE">>, FALSE),
       NewFactory(<<Plain("A")>>, <<"B">>, <<"closer">>, FALSE) >>

TwoMatchingOutputs ==
    << NewFactory(<<>>, <<"A", "B">>, <<"plain", "closer">>, FALSE) >>

TwoFailing ==
    << NewFactory(<<>>, <<"A">>, <<"plain">>, TRUE),
       NewFactory(<<>>, <<"C">>, <<"plain">>, TRUE) >>

\* A factory whose function panics, declared after a service with a Close
\* method; a service whose Close method panics, declared ahead of a factory
\* that can fail and ahead of a factory whose function panics.
PanickingFactory ==
    << NewFactory(<<>>, <<"A">>, <<"closerE">>, FALSE),
       NewFactory(<<>>, <<"P">>, <<"plain">>, FALSE) >>

PanickingHook ==
    << NewFactory(<<>>, <<"A">>, <<"closerP">>, FALSE),
       NewFactory(<<>>, <<"B">>, <<"closer">>, FALSE),
       NewFactory(<<>>, <<"C">>, <<"plain">>, TRUE) >>

PanickingBoth ==
    << NewFactory(<<>>, <<"A">>, <<"closerP">>, FALSE),
       NewFactory(<<>>, <<"P">>, <<"plain">>, FALSE) >>

\* Function-valued outputs as in TestRegistryResolveFuncServices, beside a
\* service function and a named function type with methods, and their
\* consumer.
FuncServices ==
    << NewFactory(<<>>, <<"func() int", "any">>, <<"fnInt", "svcE">>, FALSE),
       NewFactory(<<>>, <<"func(string) string", "X">>, <<"fnStrStr", "fnMeth">>, FALSE),
       NewFactory(<<Plain("func() int"), Plain("func(string) string"), Plain("X")>>,
                  <<"C">>, <<"plain">>, FALSE) >>

\* Functions with parameters and without result, or with the one result
\* error, and a named function type without methods.
FuncWithParams ==
    << NewFactory(<<>>, <<"any", "func(string)">>, <<"svc", "fnArg">>, FALSE),
       NewFactory(<<>>, <<"X">>, <<"fnNamed">>, FALSE),
       NewFactory(<<>>, <<"func(int) error">>, <<"fnArgE">>, FALSE) >>

WideRegistries ==
    {New(DependentFirst), New(TwoMatchingOutputs), New(TwoFailing),
     New(PanickingFactory), New(PanickingHook), New(PanickingBoth),
     New(FuncServices), New(FuncWithParams)}

WideTypes == {Plain("I"), OptionalOf("I"), MultipleOf("I"),
              Plain("X"), OptionalOf("X"), MultipleOf("X")}

InitWide == InitWith(WideRegistries, {NoHandlers})

NextWide ==
    \/ CallStart(Main)
    \/ \E ty \in WideTypes : CallResolve(Main, ty)
    \/ \E tys \in InvokeSignatures : CallInvoke(Main, tys)
    \/ \E p \in Procs : CallClose(p)
    \/ \E p \in Procs : Step(p)
    \/ \E h \in DOMAIN svc : SvcReturn(h)

SpecWide == InitWide /\ [][NextWide]_vars

(***************************************************************************)
(* Concurrent resolution: several goroutines call Resolve at once on a    *)
(* container that is not closing (the services of the registry are        *)
(* resolved without the container lock).                                  *)
(***************************************************************************)
InitPar == Init /\ handlers = NoHandlers

CallResolvePar(p, ty) ==
    /\ closer = "idle"
    /\ ops < MaxParOps
    /\ Begin(p, <<ResolveFrame(ty), RbtFrame(ty)>>)

StepPar(p) ==
    \/ SpawnCheck(p) \/ SpawnArg(p) \/ SpawnCall(p)
    \/ SpawnSetSpawned(p) \/ SpawnSetOutValues(p) \/ SpawnAppend(p)
    \/ RbtNext(p) \/ RbtRead(p)

NextPar ==
    \/ \E p \in Procs : \E ty \in ResolveTypes : CallResolvePar(p, ty)
    \/ \E p \in Procs : StepPar(p)
    \/ \E h \in DOMAIN svc : SvcReturn(h)

SpecPar == InitPar /\ [][NextPar]_vars

(***************************************************************************)
(* Resolution that re-enters itself: a factory whose function resolves Y  *)
(* through the Resolver, and a producer of Y that needs the output of     *)
(* that factory, or one that does not.                                    *)
(***************************************************************************)
Reentrant ==
    << NewFactory(<<Plain("Resolver")>>, <<"X">>, <<"plain">>, TRUE),
       NewFactory(<<Plain("X")>>, <<"Y">>, <<"plain">>, FALSE) >>

NotReentrant ==
    << NewFactory(<<Plain("Resolver")>>, <<"X">>, <<"plain">>, TRUE),
       NewFactory(<<>>, <<"Y">>, <<"plain">>, FALSE) >>

InitReentrant == InitWith({New(Reentrant), New(NotReentrant)}, {NoHandlers})

NextReentrant ==
    \/ \E ty \in {Plain("X"), Plain("Y")} : CallResolve(Main, ty)
    \/ SpawnCheck(Main) \/ SpawnArg(Main) \/ SpawnCall(Main)
    \/ SpawnCallResolving(Main) \/ FuncReturn(Main)
    \/ SpawnSetSpawned(Main) \/ SpawnSetOutValues(Main) \/ SpawnAppend(Main)
    \/ RbtNext(Main) \/ RbtRead(Main)

SpecReentrant == InitReentrant /\ [][NextReentrant]_vars

\* The goroutine that called Resolve keeps running.
SpecReentrantFair == SpecReentrant /\ WF_vars(NextReentrant)

(***************************************************************************)
(* New and registry.validateFactories.  New registers the built-in        *)
(* services and the caller's factories and validates the registry in      *)
(* three passes: the inputs, the outputs, the circular dependencies.  An  *)
(* error of the validation names the factory (f) and the position of the  *)
(* argument or output (o, counted from 1).                                *)
(***************************************************************************)
\* The factories a caller may pass to New, at most MaxFactories of them in
\* any order and with repetitions.
FactoryPool ==
    { NewFactory(<<Plain("bool")>>, <<"int">>, <<"plain">>, FALSE),
      NewFactory(<<Plain("string")>>, <<"bool">>, <<"plain">>, FALSE),
      NewFactory(<<Plain("int")>>, <<"string">>, <<"plain">>, FALSE),
      NewFactory(<<>>, <<"string">>, <<"plain">>, FALSE),
      NewFactory(<<Plain("int")>>, <<"bool">>, <<"plain">>, FALSE),
      NewFactory(<<Plain(ContextType), OptionalOf("int"), MultipleOf("X"), Plain("Y")>>,
                 <<"any">>, <<"plain">>, FALSE),
      NewFactory(<<>>, <<"A">>, <<"plain">>, FALSE),
      NewFactory(<<>>, <<"I">>, <<"plain">>, FALSE) }

CandidateRegistries ==
    {New(user) : user \in UNION {[1..n -> FactoryPool] : n \in 1..MaxFactories}}

\* A variant of the first pass that does not skip the Optional inputs.
inputErrorsNoOptional(f) ==
    LET ins == factories[f].inTypes
        Acc[k \in 0..Len(ins)] ==
            IF k = 0 THEN <<>>
            ELSE IF \/ isContextInterface(ins[k])
                    \/ isMultipleType(ins[k])
                    \/ findFactoriesFor(ins[k].t).records # <<>>
                 THEN Acc[k-1]
                 ELSE Append(Acc[k-1], E("ErrServiceNotResolved", f, k))
    IN  Acc[Len(ins)]

\* Lines 51-78: the inputs of factory f that no factory can provide.
inputErrors(f) ==
    LET ins == factories[f].inTypes
        Acc[k \in 0..Len(ins)] ==
            IF k = 0 THEN <<>>
            ELSE IF \/ isContextInterface(ins[k])
                    \/ isOptionalType(ins[k])
                    \/ isMultipleType(ins[k])
                    \/ findFactoriesFor(ins[k].t).records # <<>>
                 THEN Acc[k-1]
                 ELSE Append(Acc[k-1], E("ErrServiceNotResolved", f, k))
    IN  Acc[Len(ins)]

\* A variant of the second pass that does not skip the outputs of type any.
outputErrorsWithAny(f) ==
    LET outs == factories[f].outTypes
        Acc[k \in 0..Len(outs)] ==
            IF k = 0 THEN <<>>
            ELSE IF Len(findFactoriesFor(outs[k]).records) > 1
                 THEN Append(Acc[k-1], E("ErrServiceDuplicated", f, k))
                 ELSE Acc[k-1]
    IN  Acc[Len(outs)]

\* Lines 83-97: the outputs of factory f that are found more than once.
outputErrors(f) ==
    LET outs == factories[f].outTypes
        Acc[k \in 0..Len(outs)] ==
            IF k = 0 THEN <<>>
            ELSE IF /\ ~isEmptyInterface(outs[k])
                    /\ Len(findFactoriesFor(outs[k]).records) > 1
                 THEN Append(Acc[k-1], E("ErrServiceDuplicated", f, k))
                 ELSE Acc[k-1]
    IN  Acc[Len(outs)]

\* A variant of the walk that looks at the direct dependencies only.
walkInputsDirect(root, f) ==
    LET ins == factories[f].inTypes
        Acc[k \in 0..Len(ins)] ==
            IF k = 0 THEN [found |-> FALSE, next |-> <<>>]
            ELSE IF Acc[k-1].found \/ isContextInterface(ins[k]) THEN Acc[k-1]
            ELSE LET typeFactories == findFactoriesFor(ins[k].t).records
                 IN  IF \E j \in 1..Len(typeFactories) : typeFactories[j] = root
                     THEN [found |-> TRUE, next |-> <<>>]
                     ELSE Acc[k-1]
    IN  Acc[Len(ins)]

\* Lines 108-140: the inputs of the dequeued factory f in the traversal that
\* started at root.  Optional and Multiple are unwrapped; the factories for
\* every input are enqueued, unless one of them is the root: then the
\* traversal ends with a finding.
walkInputs(root, f) ==
    LET ins == factories[f].inTypes
        Acc[k \in 0..Len(ins)] ==
            IF k = 0 THEN [found |-> FALSE, next |-> <<>>]
            ELSE IF Acc[k-1].found \/ isContextInterface(ins[k]) THEN Acc[k-1]
            ELSE LET typeFactories == findFactoriesFor(ins[k].t).records
                 IN  IF \E j \in 1..Len(typeFactories) : typeFactories[j] = root
                     THEN [found |-> TRUE, next |-> <<>>]
                     ELSE [found |-> FALSE, next |-> Acc[k-1].next \o typeFactories]
    IN  Acc[Len(ins)]

\* A variant of the first pass that returns when it has found an error.
ValidateInputsStop(p) ==
    /\ OnTop(p, "New", "inputs")
    /\ LET fr == Top(p) IN
       IF fr.errs # <<>>
       THEN Return(p, Err(fr.errs))
       ELSE IF fr.f <= Len(factories)
       THEN Goto(p, [fr EXCEPT !.f = @ + 1, !.errs = @ \o inputErrors(fr.f)])
       ELSE Goto(p, [fr EXCEPT !.ph = "outputs", !.f = 1])
    /\ UNCHANGED <<factories, handlers, spawned, outValues, cancelled, sequence,
                   svc, mutex, closer, ctxDone, calls, failures, spawnedAt,
                   injected, closeLog, ops>>

\* Lines 50-79, one iteration of the outer loop.
ValidateInputs(p) ==
    /\ OnTop(p, "New", "inputs")
    /\ LET fr == Top(p) IN
       IF fr.f <= Len(factories)
       THEN Goto(p, [fr EXCEPT !.f = @ + 1, !.errs = @ \o inputErrors(fr.f)])
       ELSE Goto(p, [fr EXCEPT !.ph = "outputs", !.f = 1])
    /\ UNCHANGED <<factories, handlers, spawned, outValues, cancelled, sequence,
                   svc, mutex, closer, ctxDone, calls, failures, spawnedAt,
                   injected, closeLog, ops>>

\* Lines 82-98, one iteration of the outer loop.
ValidateOutputs(p) ==
    /\ OnTop(p, "New", "outputs")
    /\ LET fr == Top(p) IN
       IF fr.f <= Len(factories)
       THEN Goto(p, [fr EXCEPT !.f = @ + 1, !.errs = @ \o outputErrors(fr.f)])
       ELSE Goto(p, [fr EXCEPT !.ph = "cycles", !.f = 1, !.acc = <<1>>])
    /\ UNCHANGED <<factories, handlers, spawned, outValues, cancelled, sequence,
                   svc, mutex, closer, ctxDone, calls, failures, spawnedAt,
                   injected, closeLog, ops>>

\* Lines 101-145: fr.f is the index of the outer loop and fr.acc the slice
\* `factories` of the traversal.  One step dequeues one factory, or goes to
\* the next index when the slice is empty, or joins the errors at the end
\* (New returns the container, or the error: part_017 lines 130-135).
ValidateCycles(p) ==
    /\ OnTop(p, "New", "cycles")
    /\ LET fr == Top(p) IN
       IF fr.f > Len(factories)
       THEN Return(p, IF fr.errs = <<>> THEN Ok(<<>>) ELSE Err(fr.errs))
       ELSE IF fr.acc = <<>>
       THEN Goto(p, [fr EXCEPT !.f = @ + 1, !.acc = <<fr.f + 1>>])
       ELSE LET w == walkInputs(fr.f, Head(fr.acc))
            IN  IF w.found
                THEN Goto(p, [fr EXCEPT !.acc = <<>>,
                                 !.errs = Append(@, E("ErrCircularDependency", fr.f, 0))])
                ELSE /\ Len(Tail(fr.acc) \o w.next) <= MaxQueue
                     /\ Goto(p, [fr EXCEPT !.acc = Tail(@) \o w.next])
    /\ UNCHANGED <<factories, handlers, spawned, outValues, cancelled, sequence,
                   svc, mutex, closer, ctxDone, calls, failures, spawnedAt,
                   injected, closeLog, ops>>

CallNew(p) ==
    Begin(p, <<[Frame("New", "inputs") EXCEPT !.f = 1, !.n = Len(factories)]>>)

InitValidate == InitWith(CandidateRegistries, {NoHandlers})

NextValidate ==
    \/ CallNew(Main)
    \/ ValidateInputs(Main)
    \/ ValidateOutputs(Main)
    \/ ValidateCycles(Main)

SpecValidate == InitValidate /\ [][NextValidate]_vars

\* The goroutine that called New keeps running.
SpecValidateFair == SpecValidate /\ WF_vars(NextValidate)

(***************************************************************************)
(* The events broker on its own: Subscribe and Trigger.                   *)
(***************************************************************************)
\* Handler functions as in TestEvents: func(int) error returning nil or an
\* error, func(*T), func(...any) error, func(int, int).
HandlerPool ==
    {HandlerFn(<<"int">>, FALSE, "nil"),
     HandlerFn(<<"int">>, FALSE, "err"),
     HandlerFn(<<"ptr">>, FALSE, "none"),
     HandlerFn(<<>>, TRUE, "err"),
     HandlerFn(<<"int", "int">>, FALSE, "none")}

\* The arguments of the events that are triggered.
EventArgs == {<<>>, <<"int">>, <<"nil">>, <<"string", "int">>}

\* The names that handlers are subscribed to and events triggered under.
SubscribedNames == {ContainerStarting, ContainerStarted}

Subscriptions == Len(handlers[ContainerStarting]) + Len(handlers[ContainerStarted])

\* A variant of Subscribe that puts the handler in front.
SubscribeFront(name, h) ==
    /\ \A p \in Procs : Idle(p)
    /\ Subscriptions < MaxHandlers
    /\ handlers' = [handlers EXCEPT ![name] = <<h>> \o @]
    /\ UNCHANGED <<factories, spawned, outValues, cancelled, sequence, svc, mutex,
                   closer, ctxDone, stack, result, calls, failures, spawnedAt,
                   injected, closeLog, triggered, ops>>

\* events.Subscribe, lines 43-73, for a function of a valid signature: the
\* handler is appended under the name.  It takes the write lock, so no
\* Trigger is running.
Subscribe(name, h) ==
    /\ \A p \in Procs : Idle(p)
    /\ Subscriptions < MaxHandlers
    /\ handlers' = [handlers EXCEPT ![name] = Append(@, h)]
    /\ UNCHANGED <<factories, spawned, outValues, cancelled, sequence, svc, mutex,
                   closer, ctxDone, stack, result, calls, failures, spawnedAt,
                   injected, closeLog, triggered, ops>>

\* A call of Events.Trigger: the frame holds the event in ty, the calls of
\* handlers made so far in acc and their errors in errs.
CallTrigger(p, ev) ==
    Begin(p, <<[Frame("Trigger", "loop") EXCEPT !.ty = ev, !.i = 1,
                                               !.n = Len(handlers[ev.name])]>>)

\* A variant of the loop that returns at the first error of a handler.
TriggerNextStop(p) ==
    /\ OnTop(p, "Trigger", "loop")
    /\ LET fr == Top(p)
           hs == handlers[fr.ty.name]
       IN  IF fr.i > Len(hs) \/ fr.errs # <<>>
           THEN Return(p, [kind |-> IF fr.errs = <<>> THEN "ok" ELSE "err",
                           vals |-> fr.acc, errs |-> fr.errs])
           ELSE LET r == callHandler(hs[fr.i], fr.ty.args, fr.i)
                IN  Goto(p, [fr EXCEPT !.i = @ + 1,
                                       !.acc = Append(@, [h |-> fr.i, invoked |-> r.invoked]),
                                       !.errs = @ \o r.errs])
    /\ UNCHANGED <<factories, handlers, spawned, outValues, cancelled, sequence,
                   svc, mutex, closer, ctxDone, calls, failures, spawnedAt,
                   injected, closeLog, ops>>

\* events.Trigger, lines 81-88: one iteration of the loop over the handlers
\* subscribed under the name of the event, or errors.Join at its end.
TriggerNext(p) ==
    /\ OnTop(p, "Trigger", "loop")
    /\ LET fr == Top(p)
           hs == handlers[fr.ty.name]
       IN  IF fr.i > Len(hs)
           THEN Return(p, [kind |-> IF fr.errs = <<>> THEN "ok" ELSE "err",
                           vals |-> fr.acc, errs |-> fr.errs])
           ELSE LET r == callHandler(hs[fr.i], fr.ty.args, fr.i)
                IN  Goto(p, [fr EXCEPT !.i = @ + 1,
                                       !.acc = Append(@, [h |-> fr.i, invoked |-> r.invoked]),
                                       !.errs = @ \o r.errs])
    /\ UNCHANGED <<factories, handlers, spawned, outValues, cancelled, sequence,
                   svc, mutex, closer, ctxDone, calls, failures, spawnedAt,
                   injected, closeLog, ops>>

InitEvents == InitWith({New(<<>>)}, {NoHandlers})

NextEvents ==
    \/ \E name \in SubscribedNames, h \in HandlerPool : Subscribe(name, h)
    \/ \E name \in SubscribedNames, args \in EventArgs : CallTrigger(Main, NewEvent(name, args))
    \/ TriggerNext(Main)

SpecEvents == InitEvents /\ [][NextEvents]_vars

(***************************************************************************)
(* Resolution and teardown side by side.  Resolve takes neither the lock  *)
(* of the container nor looks whether the container is closed, so the     *)
(* goroutines may call it before, while and after Start and Close run,    *)
(* through a Resolver that they got from the container before its context *)
(* was done or that was injected into them.  Start does not look whether  *)
(* the container is closed either.                                        *)
(***************************************************************************)
CallResolveAnytime(p, ty) == Begin(p, <<ResolveFrame(ty), RbtFrame(ty)>>)

CallStartAnytime(p) ==
    Begin(p, <<[Frame("Start", "enter") EXCEPT !.c0 = calls, !.h0 = Len(closeLog)]>>)

CallCloseAnytime(p) ==
    Begin(p, <<[Frame("Close", "enter") EXCEPT !.c0 = calls, !.h0 = Len(closeLog)]>>)

StepTeardown(p) ==
    \/ SpawnCheck(p) \/ SpawnArg(p) \/ SpawnCall(p)
    \/ SpawnSetSpawned(p) \/ SpawnSetOutValues(p) \/ SpawnAppend(p)
    \/ RbtNext(p) \/ RbtRead(p)
    \/ StartEnter(p) \/ StartSpawn(p) \/ StartExit(p)
    \/ CloseEnter(p) \/ CfCancel(p) \/ CfHook(p) \/ CloseFinish(p) \/ CloseAwait(p)

ServiceReturns == \E h \in DOMAIN svc : SvcReturn(h)

\* One factory, whose output is a service function that runs until the
\* context it was given is done.
ServiceOnly == << NewFactory(<<Plain(ContextType)>>, <<"any">>, <<"svcE">>, FALSE) >>

InitTeardown == InitWith({New(ServiceOnly)}, {NoHandlers})

NextTeardown ==
    \/ \E p \in Procs : CallResolveAnytime(p, Plain("any"))
    \/ \E p \in Procs : CallStartAnytime(p)
    \/ \E p \in Procs : CallCloseAnytime(p)
    \/ \E p \in Procs : StepTeardown(p)
    \/ ServiceReturns

SpecTeardown == InitTeardown /\ [][NextTeardown]_vars

\* Every goroutine that can take a step takes it, and every service function
\* that runs returns.
SpecTeardownFair ==
    /\ SpecTeardown
    /\ \A p \in Procs : WF_vars(StepTeardown(p))
    /\ WF_vars(ServiceReturns)

(***************************************************************************)
(* Chains of dependencies.  The k-th factory of a chain of n produces the *)
(* type Tk from the type of the next one; the last one needs nothing.     *)
(* The factories are declared dependent first, or dependency first.       *)
(***************************************************************************)
TypeName(k) == "T" \o ToString(k)

Chain(n) ==
    [k \in 1..n |->
        NewFactory(IF k < n THEN <<Plain(TypeName(k + 1))>> ELSE <<>>,
                   <<TypeName(k)>>, <<"plain">>, FALSE)]

ChainReversed(n) == [k \in 1..n |-> Chain(n)[n + 1 - k]]

ChainRegistries ==
    {New(Chain(n)) : n \in 1..MaxChain} \cup {New(ChainReversed(n)) : n \in 1..MaxChain}

StepChain(p) ==
    \/ SpawnCheck(p) \/ SpawnArg(p) \/ SpawnCall(p)
    \/ SpawnSetSpawned(p) \/ SpawnSetOutValues(p) \/ SpawnAppend(p)
    \/ RbtNext(p) \/ RbtRead(p)
    \/ StartEnter(p) \/ StartSpawn(p) \/ StartExit(p)
    \/ CloseEnter(p) \/ CfCancel(p) \/ CfHook(p) \/ CloseFinish(p) \/ CloseAwait(p)

InitChain == InitWith(ChainRegistries, {NoHandlers})

NextChain == CallStart(Main) \/ CallClose(Main) \/ StepChain(Main)

SpecChain == InitChain /\ [][NextChain]_vars

(***************************************************************************)
(* Service functions of a declared function type.  The first registry     *)
(* declares the output as func() error and has a consumer of that type;   *)
(* the second one declares it as any, as the README does.                 *)
(***************************************************************************)
TypedService ==
    << NewFactory(<<>>, <<"func() error">>, <<"svcE">>, FALSE),
       NewFactory(<<Plain("func() error")>>, <<"C">>, <<"plain">>, FALSE) >>

UntypedService ==
    << NewFactory(<<>>, <<"any">>, <<"svcE">>, FALSE),
       NewFactory(<<Plain("any")>>, <<"C">>, <<"plain">>, FALSE) >>

TypedTypes ==
    {Plain("func() error"), OptionalOf("func() error"), MultipleOf("func() error"),
     Plain("any"), Plain("C")}

InitTyped == InitWith({New(TypedService), New(UntypedService)}, {NoHandlers})

NextTyped ==
    \/ CallStart(Main)
    \/ \E ty \in TypedTypes : CallResolve(Main, ty)
    \/ CallClose(Main)
    \/ StepTeardown(Main)
    \/ ServiceReturns

SpecTyped == InitTyped /\ [][NextTyped]_vars

(***************************************************************************)
(* Properties.                                                            *)
(***************************************************************************)
Range(s) == {s[k] : k \in 1..Len(s)}

\* The outputs of factory f that carry a Close hook.
Hooks(f) == {o \in 1..Len(outValues[f]) : factories[f].outKinds[o] \notin Closeless}

\* The services stored for type t, as resolveByType collects them.
StoredFor(t) ==
    LET found == findFactoriesFor(t)
        Acc[k \in 0..Len(found.indices)] ==
            IF k = 0 THEN <<>>
            ELSE Acc[k-1] \o [j \in 1..Len(found.indices[k]) |->
                                outValues[found.records[k]][found.indices[k][j]]]
    IN  Acc[Len(found.indices)]

\* Factory f was cancelled and all its Close hooks had returned before the
\* c-th entry of the close log.
ClosedBefore(f, c) ==
    /\ \E k \in 1..(c - 1) : closeLog[k] = LogCancel(f)
    /\ \A o \in Hooks(f) :
         \E k \in 1..(c - 1) :
            closeLog[k].a = "hook" /\ closeLog[k].f = f /\ closeLog[k].o = o

Returned(p, op) == Idle(p) /\ result[p].op = op

\* C1: when several goroutines resolve the type of one unspawned factory at
\* once, the function of the factory is invoked at most once (once it has
\* succeeded it is not invoked again), and every caller receives the same
\* stored value.
C1_ConcurrentSpawnOnce ==
    /\ \A f \in Fs : calls[f] <= failures[f] + 1
    /\ \A p, q \in Procs :
         /\ result[p].op = "Resolve" /\ result[p].kind = "ok"
         /\ result[q].op = "Resolve" /\ result[q].kind = "ok"
         /\ result[p].ty = result[q].ty
         => result[p].vals = result[q].vals

\* C2 (as stated): in a sequential history of Start / Resolve / Invoke a
\* spawned factory is never invoked again, and every later resolution of one
\* of its output types returns the stored outputs.
C2_Original ==
    /\ \A f \in Fs : spawned[f] => calls[f] = spawnedAt[f]
    /\ \A p \in Procs :
         /\ result[p].op = "Resolve"
         /\ \E f \in result[p].pre : MatchingOutputs(f, result[p].ty.t) # <<>>
         => /\ result[p].kind = "ok"
            /\ result[p].vals =
                  resolveResult(result[p].ty, StoredFor(result[p].ty.t)).vals

\* C2 (amended): a spawned factory is never invoked again, and every later
\* resolution of one of its output types that succeeds returns the stored
\* outputs; the resolution fails when another factory of the type fails.
C2_SpawnedOnce ==
    /\ \A f \in Fs : spawned[f] => calls[f] = spawnedAt[f]
    /\ \A p \in Procs :
         result[p].op = "Resolve" /\ result[p].kind = "ok"
         => /\ result[p].vals =
                  resolveResult(result[p].ty, StoredFor(result[p].ty.t)).vals
            /\ \A f \in result[p].pre : calls[f] = result[p].c0[f]

\* A resolution has returned the stored output of a factory that was spawned
\* before the call.
C2_Witness ==
    /\ Returned(Main, "Resolve")
    /\ result[Main].kind = "ok"
    /\ \E f \in result[Main].pre :
         /\ MatchingOutputs(f, result[Main].ty.t) # <<>>
         /\ result[Main].vals = <<outValues[f][1]>>

\* C3: teardown walks the sequence in strict reverse: when the context of a
\* factory is cancelled, every factory spawned after it has been cancelled
\* and all the Close hooks of that factory have returned.
C3_ReverseOrder ==
    \A c \in 1..Len(closeLog) :
       closeLog[c].a = "cancel" =>
          \E i \in 1..Len(sequence) :
             /\ sequence[i] = closeLog[c].f
             /\ \A k \in (i + 1)..Len(sequence) : ClosedBefore(sequence[k], c)

\* The whole teardown has run on a sequence whose order differs from the
\* declaration order: the service function (declared 4th, spawned after the
\* A it needs) was closed before the producer of A (declared 5th).
C3_Witness ==
    /\ closer = "done"
    /\ \E a, b \in 1..Len(closeLog) :
         a < b /\ closeLog[a] = LogCancel(4) /\ closeLog[b] = LogCancel(5)

\* C4: the context of a factory is cancelled before any of its Close hooks
\* is called, the handle of a service function included.
C4_CancelBeforeHooks ==
    /\ \A h \in 1..Len(closeLog) :
         closeLog[h].a = "hook" =>
            \E c \in 1..(h - 1) : closeLog[c] = LogCancel(closeLog[h].f)
    /\ \A p \in Procs : OnTop(p, "cf", "hooks") => cancelled[Top(p).f]

\* The handle of a service function has been waited for in a teardown.
C4_Witness ==
    \E h \in 1..Len(closeLog) :
       /\ closeLog[h].a = "hook"
       /\ isServiceFunc(factories[closeLog[h].f].outKinds[closeLog[h].o])

\* C5: Close does not return until every service function started by a
\* spawned factory has returned.
C5_CloseWaitsForServiceFuncs ==
    \A p \in Procs :
       Returned(p, "Close") =>
          \A h \in DOMAIN svc : spawned[h[1]] => svc[h] # "running"

\* The waiting of C5 on the path where no ContainerClosing handler fails and
\* closeFactories is reached.
CloseWaitsWhenTeardownRuns ==
    Trigger(ContainerClosing) = <<>> => C5_CloseWaitsForServiceFuncs

\* C6: Close returns an error that wraps the error of every failing Close
\* hook and service function, and nil only when none failed.
C6_CloseReturnsErrors ==
    \A p \in Procs :
       Returned(p, "Close") /\ (\E k \in 1..Len(closeLog) : closeLog[k].e)
       => result[p].kind = "err"

\* C7: over all the Close calls, sequential or concurrent, teardown runs
\* once: every context is cancelled once and every Close hook is called at
\* most once.
C7_TeardownOnce ==
    \A a, b \in 1..Len(closeLog) :
       a < b =>
          \/ closeLog[a].a # closeLog[b].a
          \/ closeLog[a].f # closeLog[b].f
          \/ closeLog[a].o # closeLog[b].o

\* Two Close calls have returned after a teardown that closed something.
C7_Witness ==
    /\ \A p \in Procs : Returned(p, "Close")
    /\ closeLog # <<>>
    /\ \E k \in 1..Len(closeLog) : closeLog[k].a = "hook"

C9_FailedStartCloses ==
    \A p \in Procs :
       Returned(p, "Start") /\ result[p].kind # "ok" =>
          \A f \in Fs : spawned[f] =>
             /\ cancelled[f]
             /\ ClosedBefore(f, Len(closeLog) + 1)

\* The closing of C9 on the path where no ContainerClosing handler fails.
FailedStartClosesWhenTeardownRuns ==
    Trigger(ContainerClosing) = <<>> => C9_FailedStartCloses

\* C10: a factory whose function returned an error is not marked spawned,
\* stores no outputs and is not in the sequence; a later resolution invokes
\* the function again and reports the outcome of that invocation.
C10_FailedFactoryNotSpawned ==
    /\ \A f \in Fs :
         calls[f] > 0 /\ failures[f] = calls[f] =>
            /\ ~spawned[f]
            /\ outValues[f] = <<>>
            /\ f \notin Range(sequence)
    /\ \A p \in Procs :
         /\ result[p].op = "Resolve"
         /\ result[p].kind = "err"
         /\ result[p].errs[1].e = "ErrFactoryReturnedError"
         => calls[result[p].errs[1].f] > result[p].c0[result[p].errs[1].f]

\* A factory that failed has been invoked again by a later resolution.
C10_Witness ==
    /\ Returned(Main, "Resolve")
    /\ \E f \in Fs : failures[f] >= 1 /\ calls[f] >= 2

\* C11: every factory whose output was injected into a factory of the
\* sequence (directly, through Optional or through Multiple) stands in the
\* sequence before it, whatever the declaration order; and on Close a
\* factory is cancelled only when every factory that received its outputs
\* has been cancelled and has had its Close hooks returned.
C11_DependenciesFirst ==
    /\ \A i \in 1..Len(sequence) :
         \A g \in injected[sequence[i]] :
            \E j \in 1..(i - 1) : sequence[j] = g
    /\ \A c \in 1..Len(closeLog) :
         closeLog[c].a = "cancel" =>
            \A f \in Range(sequence) :
               closeLog[c].f \in injected[f] => ClosedBefore(f, c)

\* Start has spawned the dependent declared first (4) after the two
\* factories declared after it, whose outputs it received through Optional
\* and Multiple, and a Close has torn all of them down.
C11_Witness ==
    /\ factories = New(DependentFirst)
    /\ Returned(Main, "Close")
    /\ closer = "done"
    /\ injected[4] = {5, 6}
    /\ injected[6] = {5}
    /\ \E i, j, k \in 1..Len(sequence) :
         i < j /\ j < k /\ sequence[i] = 5 /\ sequence[j] = 6 /\ sequence[k] = 4
    /\ \E a, b \in 1..Len(closeLog) :
         a < b /\ closeLog[a] = LogCancel(4) /\ closeLog[b] = LogCancel(5)

\* C12: the context of a factory is not cancelled before teardown reaches
\* the factory: no context is cancelled while the container is open or
\* Start runs (also when a sibling factory fails), and a context is
\* cancelled only when every factory spawned later has been cancelled and
\* has had all its Close hooks returned.
C12_NoEarlyCancel ==
    /\ closer = "idle" => \A f \in Fs : ~cancelled[f]
    /\ \A p \in Procs :
         (\E k \in 1..Len(stack[p]) :
             stack[p][k].op = "Start" /\ stack[p][k].ph # "closing")
         => \A f \in Fs : ~cancelled[f]
    /\ \A i \in 1..Len(sequence) :
         cancelled[sequence[i]] =>
            \A k \in (i + 1)..Len(sequence) :
               /\ cancelled[sequence[k]]
               /\ ClosedBefore(sequence[k], Len(closeLog) + 1)
    /\ \A f \in Fs : cancelled[f] => f \in Range(sequence)

\* Teardown waits in the Close hook of the service function (spawned last)
\* while the context of the factory spawned before it is still open, after
\* a sibling factory has failed.
C12_Witness ==
    /\ \E p \in Procs :
         OnTop(p, "cf", "hooks") /\ Top(p).f = 4 /\ svc[Top(p).acc[1]] = "running"
    /\ cancelled[4]
    /\ spawned[5] /\ ~cancelled[5]
    /\ failures[6] >= 1

\* The process is inside Start, outside the Close that a failing Start
\* makes, and holds the lock.
InStart(p) ==
    /\ stack[p] # <<>>
    /\ stack[p][1].op = "Start"
    /\ stack[p][1].ph \in {"spawn", "exit"}

\* C13: spawning a factory that returns a service function starts the
\* function in the background, and Start goes on and returns without waiting
\* for it: whatever the service functions do, a Start that holds the lock
\* can always take its next step.
C13_StartDoesNotWait ==
    \A p \in Procs : InStart(p) => ENABLED Step(p)

\* Start has returned nil while the service function it started is still
\* running, its context not cancelled.
C13_Witness ==
    /\ Returned(Main, "Start")
    /\ result[Main].kind = "ok"
    /\ \E h \in DOMAIN svc : svc[h] = "running" /\ ~cancelled[h[1]]

\* The errors of the hooks that failed so far, in the order of the calls.
FailedHooks ==
    LET failed == SelectSeq(closeLog, LAMBDA x : x.e)
    IN  [k \in 1..Len(failed) |-> E("CloseError", failed[k].f, failed[k].o)]

\* C14: a Close hook that returns an error does not stop the teardown: when
\* closeFactories has returned, every factory of the sequence is cancelled
\* and has had its Close hooks called, and the error it returns joins the
\* errors of all the failed hooks, in reverse spawn order.
C14_BestEffortTeardown ==
    /\ \A p \in Procs :
         stack[p] # <<>> /\ Top(p).op = "cf" => Top(p).errs = FailedHooks
    /\ \A p \in Procs :
         OnTop(p, "Close", "finish") /\ FailedHooks # <<>> =>
            /\ Top(p).errs = FailedHooks
            /\ \A f \in Range(sequence) :
                  cancelled[f] /\ ClosedBefore(f, Len(closeLog) + 1)
    /\ \A a, b \in 1..Len(FailedHooks) :
         a < b =>
            \E i, j \in 1..Len(sequence) :
               /\ sequence[i] = FailedHooks[a].f
               /\ sequence[j] = FailedHooks[b].f
               /\ i >= j

\* closeFactories has returned the errors of two failing hooks of two
\* factories, the one of the factory spawned last first.
C14_Witness ==
    \E p \in Procs :
       /\ OnTop(p, "Close", "finish")
       /\ Len(Top(p).errs) = 2
       /\ Top(p).errs[1].f = 4
       /\ Top(p).errs[2].f = 5

C16_DoneAfterShutdown ==
    ctxDone =>
       \A f \in Fs :
          spawned[f] => cancelled[f] /\ ClosedBefore(f, Len(closeLog) + 1)

\* The ordering of C16 on the path where no ContainerClosing handler fails.
DoneAfterShutdownWhenTeardownRuns ==
    Trigger(ContainerClosing) = <<>> => C16_DoneAfterShutdown

\* C17 (as stated): Start reports all the independent spawn failures:
\* spawning does not stop at the first failing factory, and the errors of
\* the factories that failed are joined into the error that Start returns.
C17_Original ==
    \A p \in Procs :
       Returned(p, "Start") /\ result[p].kind = "err" =>
          /\ \A f \in Fs : calls[f] >= 1
          /\ \A f \in Fs :
                calls[f] > result[p].c0[f] /\ ~spawned[f] =>
                   \E k \in 1..Len(result[p].errs) :
                      result[p].errs[k] = E("ErrFactoryReturnedError", f, 0)

\* C17 (amended): Start stops at the first failing factory: it returns the
\* error of that factory alone, and the factories declared after it (that
\* no spawned factory needed) are not invoked by this Start.
C17_FirstFailureOnly ==
    \A p \in Procs :
       /\ Returned(p, "Start")
       /\ result[p].kind = "err"
       /\ result[p].errs[1].e = "ErrFactoryReturnedError"
       => /\ Len(result[p].errs) = 1
          /\ \A g \in Fs :
                /\ g > result[p].errs[1].f
                /\ \A h \in Fs : g \notin injected[h]
                => calls[g] = result[p].c0[g]

\* Start has returned the error of the first of two factories that can
\* fail, and the second was never invoked.
C17_Witness ==
    /\ factories = New(TwoFailing)
    /\ Returned(Main, "Start")
    /\ result[Main].errs = <<E("ErrFactoryReturnedError", 4, 0)>>
    /\ calls[5] = 0

\* The stored outputs that match type t: by factory in declaration order,
\* then by output index.
MatchingValues(t) ==
    LET Acc[f \in 0..Len(factories)] ==
            IF f = 0 THEN <<>>
            ELSE LET idx == MatchingOutputs(f, t)
                 IN  Acc[f-1] \o [k \in 1..Len(idx) |-> outValues[f][idx[k]]]
    IN  Acc[Len(factories)]

\* The first element of a sequence, as a sequence; empty when there is none.
FirstOf(s) == IF s = <<>> THEN <<>> ELSE <<s[1]>>

Matching(t) == {f \in Fs : MatchingOutputs(f, t) # <<>>}

\* The resolution failed because the function of a factory returned an error.
FactoryFailed(r) ==
    r.kind = "err" /\ r.errs[1].e = "ErrFactoryReturnedError"

\* No factory has two outputs that match type t.
OneOutputPerFactory(t) == \A f \in Fs : Len(MatchingOutputs(f, t)) <= 1

\* C18: resolving Multiple[T] returns the outputs of all the factories that
\* produce T or implement the interface T, each matching output once, by
\* declaration order and then by output index, and an empty sequence without
\* error when nothing matches, also when one factory has two or more
\* matching outputs (unless the function of a factory returns an error).
C18_MultipleAllMatches ==
    \A p \in Procs :
       result[p].op = "Resolve" /\ isMultipleType(result[p].ty) =>
          \/ FactoryFailed(result[p])
          \/ /\ result[p].kind = "ok"
             /\ result[p].vals = MatchingValues(result[p].ty.t)

\* The statement of C18 for the types of which no factory has two matching
\* outputs.
MultipleWhenOneOutputPerFactory ==
    \A p \in Procs :
       result[p].op = "Resolve" /\ isMultipleType(result[p].ty)
       /\ OneOutputPerFactory(result[p].ty.t) =>
          \/ FactoryFailed(result[p])
          \/ /\ result[p].kind = "ok"
             /\ result[p].vals = MatchingValues(result[p].ty.t)

\* Multiple[I] has been resolved to the outputs of two factories.
MultipleResolvedTwo ==
    /\ Returned(Main, "Resolve")
    /\ result[Main].ty = MultipleOf("I")
    /\ result[Main].kind = "ok"
    /\ Len(result[Main].vals) = 2

\* C19: resolving Optional[T] returns a zero box without error when no
\* factory produces T, and a box with the first matching output otherwise
\* (unless the function of a factory returns an error); it never fails with
\* ErrServiceNotResolved for its own type.
C19_OptionalFirstOrZero ==
    \A p \in Procs :
       result[p].op = "Resolve" /\ isOptionalType(result[p].ty) =>
          \/ FactoryFailed(result[p])
          \/ /\ result[p].kind = "ok"
             /\ result[p].vals = FirstOf(MatchingValues(result[p].ty.t))

\* The statement of C19 for the types of which no factory has two matching
\* outputs.
OptionalWhenOneOutputPerFactory ==
    \A p \in Procs :
       result[p].op = "Resolve" /\ isOptionalType(result[p].ty)
       /\ OneOutputPerFactory(result[p].ty.t) =>
          \/ FactoryFailed(result[p])
          \/ /\ result[p].kind = "ok"
             /\ result[p].vals = FirstOf(MatchingValues(result[p].ty.t))

\* Optional[I] has been resolved to a box with a service in it.
OptionalResolvedFull ==
    /\ Returned(Main, "Resolve")
    /\ result[Main].ty = OptionalOf("I")
    /\ result[Main].kind = "ok"
    /\ Len(result[Main].vals) = 1

\* Optional[X] has been resolved to the zero box.
OptionalResolvedZero ==
    /\ Returned(Main, "Resolve")
    /\ result[Main].ty = OptionalOf("X")
    /\ result[Main].kind = "ok"
    /\ result[Main].vals = <<>>

\* C20: resolving a plain T fails with ErrServiceNotResolved when no factory
\* produces T or implements the interface T, and otherwise returns the
\* matching output of the first-declared matching factory, also when several
\* factories implement T (unless the function of a factory returns an error).
C20_RegularFirstOrNotResolved ==
    \A p \in Procs :
       result[p].op = "Resolve" /\ result[p].ty.w = "plain" =>
          IF Matching(result[p].ty.t) = {}
          THEN /\ result[p].kind = "err"
               /\ result[p].errs = <<E("ErrServiceNotResolved", 0, 0)>>
          ELSE \/ FactoryFailed(result[p])
               \/ /\ result[p].kind = "ok"
                  /\ result[p].vals = FirstOf(MatchingValues(result[p].ty.t))

\* The statement of C20 for the types of which no factory has two matching
\* outputs.
RegularWhenOneOutputPerFactory ==
    \A p \in Procs :
       result[p].op = "Resolve" /\ result[p].ty.w = "plain"
       /\ OneOutputPerFactory(result[p].ty.t) =>
          IF Matching(result[p].ty.t) = {}
          THEN /\ result[p].kind = "err"
               /\ result[p].errs = <<E("ErrServiceNotResolved", 0, 0)>>
          ELSE \/ FactoryFailed(result[p])
               \/ /\ result[p].kind = "ok"
                  /\ result[p].vals = FirstOf(MatchingValues(result[p].ty.t))

\* The plain interface I, implemented by two factories, has been resolved.
RegularResolvedFirstOfTwo ==
    /\ Returned(Main, "Resolve")
    /\ result[Main].ty = Plain("I")
    /\ Cardinality(Matching("I")) = 2
    /\ result[Main].kind = "ok"

\* The factories that factory f depends on: those with an output that
\* matches an input of f (the inner type of an Optional or Multiple input).
DependsOn(f) ==
    {g \in Fs : \E k \in 1..Len(factories[f].inTypes) :
        /\ ~isContextInterface(factories[f].inTypes[k])
        /\ MatchingOutputs(g, factories[f].inTypes[k].t) # <<>>}

\* The factories that f depends on, directly or through other factories.
Reaches(f) ==
    LET R[k \in 0..Len(factories)] ==
            IF k = 0 THEN DependsOn(f)
            ELSE LET prev == R[k-1]
                 IN  prev \cup UNION {DependsOn(g) : g \in prev}
    IN  R[Len(factories)]

OnCycle(f) == f \in Reaches(f)

\* The elements of the set S of numbers, in ascending order.
Ascending(S) ==
    LET A[k \in 0..Len(factories)] ==
            IF k = 0 THEN <<>>
            ELSE IF k \in S THEN Append(A[k-1], k) ELSE A[k-1]
    IN  A[Len(factories)]

IsCircular(e) == e.e = "ErrCircularDependency"

IsDuplicated(e) == e.e = "ErrServiceDuplicated"

IsNotResolved(e) == e.e = "ErrServiceNotResolved"

\* The user factories of the registry are, in this order, the given ones.
Registered(user) == factories = New(user)

\* C21: when the validation has returned, its circular-dependency findings
\* are the factories that lie on a dependency cycle, one finding for each,
\* in declaration order; so a cycle A->B->C->A gives one finding for each
\* of A, B and C.
C21_CycleFindings ==
    Returned(Main, "New") =>
       SelectSeq(result[Main].errs, IsCircular) =
          LET on == Ascending({f \in Fs : OnCycle(f)})
          IN  [k \in 1..Len(on) |-> E("ErrCircularDependency", on[k], 0)]

\* The validation of the cycle bool -> int -> string -> bool has returned
\* its three findings.
C21_Witness ==
    /\ Returned(Main, "New")
    /\ Registered(<< NewFactory(<<Plain("bool")>>, <<"int">>, <<"plain">>, FALSE),
                     NewFactory(<<Plain("string")>>, <<"bool">>, <<"plain">>, FALSE),
                     NewFactory(<<Plain("int")>>, <<"string">>, <<"plain">>, FALSE) >>)
    /\ result[Main].errs = << E("ErrCircularDependency", 4, 0),
                              E("ErrCircularDependency", 5, 0),
                              E("ErrCircularDependency", 6, 0) >>

\* Some factory depends on a dependency cycle that it is not itself part of.
ForeignCycle ==
    \E f \in Fs : ~OnCycle(f) /\ \E g \in Reaches(f) : OnCycle(g)

\* C22: validateFactories, and with it New, terminates on every finite
\* registry, also when a factory depends on a dependency cycle that it is
\* not itself part of.
C22_ValidateTerminates == <>Returned(Main, "New")

\* New never returns for a registry in which a factory depends on a cycle
\* that it is not part of.
ForeignCycleNeverReturns == Returned(Main, "New") => ~ForeignCycle

\* The traversal is never held up by the bound on the length of its slice.
ValidateNotHeldUp == OnTop(Main, "New", "cycles") => ENABLED ValidateCycles(Main)

\* How many findings of the validation equal e.
Findings(e) ==
    Cardinality({k \in 1..Len(result[Main].errs) : result[Main].errs[k] = e})

\* C23: when the validation has returned, every factory output whose type
\* is produced (by equality or, for an interface, by implementation) by more
\* than one factory has exactly one ErrServiceDuplicated finding, and no
\* output of the empty interface type has one.
C23_DuplicateFindings ==
    Returned(Main, "New") =>
       \A f \in Fs : \A o \in 1..Len(factories[f].outTypes) :
          LET t == factories[f].outTypes[o]
          IN  /\ ~isEmptyInterface(t) /\ Cardinality(Matching(t)) > 1 =>
                   Findings(E("ErrServiceDuplicated", f, o)) = 1
              /\ isEmptyInterface(t) =>
                   Findings(E("ErrServiceDuplicated", f, o)) = 0

\* Two factories that produce string have been rejected with two findings.
C23_Witness ==
    /\ Returned(Main, "New")
    /\ Registered(<< NewFactory(<<>>, <<"string">>, <<"plain">>, FALSE),
                     NewFactory(<<>>, <<"string">>, <<"plain">>, FALSE) >>)
    /\ result[Main].errs = << E("ErrServiceDuplicated", 4, 1),
                              E("ErrServiceDuplicated", 5, 1) >>

\* An interface that one factory produces and the output of another factory
\* implements has been reported as duplicated; the implementing output has
\* not.
InterfaceDuplicateSeen ==
    /\ Returned(Main, "New")
    /\ Registered(<< NewFactory(<<>>, <<"A">>, <<"plain">>, FALSE),
                     NewFactory(<<>>, <<"I">>, <<"plain">>, FALSE) >>)
    /\ result[Main].errs = <<E("ErrServiceDuplicated", 5, 1)>>

\* The inputs that need a producer and have none: the plain inputs, the
\* context excepted, that no output of the registry matches.
Unresolved(f, i) ==
    LET ty == factories[f].inTypes[i]
    IN  /\ ty.w = "plain"
        /\ ty.t # ContextType
        /\ Matching(ty.t) = {}

\* C24: when the validation has returned, every factory input that is not
\* the context, not Optional and not Multiple and that has no producing
\* factory has exactly one ErrServiceNotResolved finding, and every other
\* input has none.
C24_UnresolvedFindings ==
    Returned(Main, "New") =>
       \A f \in Fs : \A i \in 1..Len(factories[f].inTypes) :
          Findings(E("ErrServiceNotResolved", f, i)) =
             IF Unresolved(f, i) THEN 1 ELSE 0

\* A factory with a context, an Optional, a Multiple and a plain input, none
\* of them produced, has been rejected for the plain input alone.
C24_Witness ==
    /\ Returned(Main, "New")
    /\ Registered(<< NewFactory(<<Plain(ContextType), OptionalOf("int"),
                                  MultipleOf("X"), Plain("Y")>>,
                                <<"any">>, <<"plain">>, FALSE) >>)
    /\ result[Main].errs = <<E("ErrServiceNotResolved", 4, 4)>>

\* The findings that a registry deserves, group by group: for every factory
\* in declaration order its unresolved inputs, then for every factory its
\* duplicated outputs, then the factories on a cycle.
ExpectedUnresolved ==
    LET Of(f) == LET ins == factories[f].inTypes
                     A[i \in 0..Len(ins)] ==
                        IF i = 0 THEN <<>>
                        ELSE IF Unresolved(f, i)
                             THEN Append(A[i-1], E("ErrServiceNotResolved", f, i))
                             ELSE A[i-1]
                 IN  A[Len(ins)]
        All[f \in 0..Len(factories)] == IF f = 0 THEN <<>> ELSE All[f-1] \o Of(f)
    IN  All[Len(factories)]

ExpectedDuplicated ==
    LET Of(f) == LET outs == factories[f].outTypes
                     A[o \in 0..Len(outs)] ==
                        IF o = 0 THEN <<>>
                        ELSE IF /\ ~isEmptyInterface(outs[o])
                                /\ Cardinality(Matching(outs[o])) > 1
                             THEN Append(A[o-1], E("ErrServiceDuplicated", f, o))
                             ELSE A[o-1]
                 IN  A[Len(outs)]
        All[f \in 0..Len(factories)] == IF f = 0 THEN <<>> ELSE All[f-1] \o Of(f)
    IN  All[Len(factories)]

ExpectedCircular ==
    LET on == Ascending({f \in Fs : OnCycle(f)})
    IN  [k \in 1..Len(on) |-> E("ErrCircularDependency", on[k], 0)]

\* C25: the validation returns the join of all findings: the unresolved
\* inputs, then the duplicated outputs, then the circular dependencies, each
\* group in declaration order; it returns nil exactly when there is no
\* finding.
C25_AllFindingsJoined ==
    Returned(Main, "New") =>
       /\ result[Main].errs =
             ExpectedUnresolved \o ExpectedDuplicated \o ExpectedCircular
       /\ (result[Main].kind = "ok") = (result[Main].errs = <<>>)
       /\ result[Main].kind \in {"ok", "err"}

\* A registry with an unresolved input, a duplicated output and a cycle has
\* been rejected with all the findings.
C25_Witness ==
    /\ Returned(Main, "New")
    /\ result[Main].kind = "err"
    /\ result[Main].errs = << E("ErrServiceNotResolved", 4, 1),
                              E("ErrServiceDuplicated", 4, 1),
                              E("ErrServiceDuplicated", 5, 1),
                              E("ErrCircularDependency", 5, 0),
                              E("ErrCircularDependency", 6, 0) >>

\* A registry without findings has been accepted.
ValidRegistryAccepted ==
    /\ Returned(Main, "New")
    /\ result[Main].kind = "ok"
    /\ Len(factories) = 6

\* The types that the call which returned r asked for.
RequestedTypes(r) ==
    IF r.op = "Resolve" THEN {r.ty}
    ELSE UNION {Range(tys) : tys \in InvokeSignatures}

\* The factories with an output of a requested type, and all the factories
\* they depend on.
RequestedClosure(r) ==
    LET direct == UNION {Matching(ty.t) : ty \in RequestedTypes(r)}
    IN  direct \cup UNION {Reaches(f) : f \in direct}

\* The factories whose outputs the call returned, and all the factories
\* they depend on.
ReturnedClosure(r) ==
    LET vals == IF r.op = "Resolve" THEN Range(r.vals)
                ELSE UNION {Range(r.vals[k]) : k \in 1..Len(r.vals)}
        direct == {v[1] : v \in vals}
    IN  direct \cup UNION {Reaches(f) : f \in direct}

\* The factories whose function was invoked during the call that returned r.
InvokedDuring(r) == {f \in Fs : calls[f] # r.c0[f]}

\* C26 as stated: a Resolve or Invoke that has returned services has
\* invoked only the factories whose outputs it returned and their
\* transitive dependencies.
C26_Original ==
    (Returned(Main, "Resolve") \/ Returned(Main, "Invoke")) /\ result[Main].kind = "ok" =>
       InvokedDuring(result[Main]) \subseteq ReturnedClosure(result[Main])

\* C26: a Resolve or Invoke invokes only the factories that have an output
\* of a requested type (all of them, also where the output of the first
\* alone is returned) and their transitive dependencies; the function of
\* every other factory is not invoked.
C26_OnlyRequestedSpawned ==
    Returned(Main, "Resolve") \/ Returned(Main, "Invoke") =>
       /\ InvokedDuring(result[Main]) \subseteq RequestedClosure(result[Main])
       /\ \A f \in Fs : spawned[f] /\ f \notin result[Main].pre =>
             f \in RequestedClosure(result[Main])

\* Before any Start, a Resolve has spawned a factory whose output it did not
\* return and which the returned one does not depend on, and it has left
\* other factories unspawned.
C26_Witness ==
    /\ Returned(Main, "Resolve")
    /\ result[Main].kind = "ok"
    /\ result[Main].pre = {}
    /\ \E f \in Fs : spawned[f] /\ f \notin ReturnedClosure(result[Main])
    /\ \E f \in Fs : ~spawned[f] /\ calls[f] = 0

NeverSpawnedNotCancelled ==
    /\ closer = "done"
    /\ \E f \in Fs : spawned[f] /\ cancelled[f]
    /\ \E f \in Fs : calls[f] = 0 /\ ~cancelled[f]

\* The panics raised while the call that returned r ran: by the functions
\* of the factories it invoked, and by the Close hooks it ran.
FactoryPanics(r) ==
    {E("panic", f, 0) : f \in {g \in Fs : Panics(g) /\ calls[g] > r.c0[g]}}

HookPanics(r) ==
    {E("panic", closeLog[k].f, closeLog[k].o) :
        k \in {j \in (r.h0 + 1)..Len(closeLog) :
                  /\ closeLog[j].a = "hook"
                  /\ factories[closeLog[j].f].outKinds[closeLog[j].o] = "closerP"}}

Published(x) == \E k \in 1..Len(triggered) : triggered[k] = NewEvent(UnhandledPanic, <<x>>)

\* The panic that process p is unwinding with: the one recovered by the
\* Close on top of its stack, or else the one recovered by its Start.
Raised(p) ==
    IF stack[p] = <<>> THEN <<>>
    ELSE IF Top(p).op = "Close" /\ Top(p).kind = "panic" THEN Top(p).errs
    ELSE IF stack[p][1].op = "Start" /\ stack[p][1].kind = "panic"
    THEN stack[p][1].errs
    ELSE <<>>

\* The panics raised by the step: by the function of a factory that the
\* step has invoked, or by the Close hook that the step has run.
NewPanics ==
    {E("panic", f, 0) : f \in {g \in Fs : Panics(g) /\ calls'[g] > calls[g]}}
    \cup
    {E("panic", closeLog'[k].f, closeLog'[k].o) :
        k \in {j \in (Len(closeLog) + 1)..Len(closeLog') :
                  /\ closeLog'[j].a = "hook"
                  /\ factories[closeLog'[j].f].outKinds[closeLog'[j].o] = "closerP"}}

\* The step raises its panics in process p, which is inside Start or Close.
RaisedIn(p) ==
    stack'[p] # stack[p] /\ InCall(p, {"Start", "Close"}) =>
       \A x \in NewPanics : Raised(p)' = <<x>>

\* The panic that p is unwinding with reaches the caller of p, after its
\* UnhandledPanic event.
ReachesCaller(p) ==
    /\ Idle(p)'
    /\ result'[p].kind = "panic"
    /\ result'[p].errs = Raised(p)
    /\ \E k \in 1..Len(triggered') :
          triggered'[k] = NewEvent(UnhandledPanic, Raised(p))

\* C30 as stated: a panic raised by a factory function during Start, or by
\* a shutdown hook during Close, is published as an UnhandledPanic event
\* that carries the recovered value, and the same panic reaches the caller
\* of Start or Close.
C30_Original ==
    [][\A p \in Procs :
          /\ RaisedIn(p)
          /\ Raised(p) # <<>> => Raised(p)' = Raised(p) \/ ReachesCaller(p)]_vars

\* C30: every panic raised by a factory function during Start, or by a
\* shutdown hook during Close or during the Close that Start runs on its
\* way out, is recovered, published as an UnhandledPanic event that carries
\* the recovered value, and raised again to the caller of Start or Close,
\* unless the Close that Start runs after the panic of a factory function
\* panics as well: then the panic of the hook replaces the first one, and
\* it is the one that reaches the caller, both having been published.
C30_PanicsPropagate ==
    [][\A p \in Procs :
          /\ RaisedIn(p)
          /\ Raised(p) # <<>> =>
                \/ Raised(p)' = Raised(p)
                \/ ReachesCaller(p)
                \/ /\ NewPanics # {}
                   /\ stack[p][1].op = "Start"
                   /\ Published(Raised(p)[1])]_vars

\* Start has panicked with the panic of a factory function, and the event
\* was published.
C30_Witness ==
    /\ Returned(Main, "Start")
    /\ FactoryPanics(result[Main]) # {}
    /\ HookPanics(result[Main]) = {}
    /\ result[Main].kind = "panic"
    /\ \E x \in FactoryPanics(result[Main]) : Published(x)

\* Close has panicked with the panic of a shutdown hook.
HookPanicSeen ==
    \E p \in Procs :
       /\ Returned(p, "Close")
       /\ HookPanics(result[p]) # {}
       /\ result[p].kind = "panic"

\* Start has panicked with the panic of a shutdown hook although the
\* function of a factory had panicked before.
DoublePanicSeen ==
    /\ Returned(Main, "Start")
    /\ FactoryPanics(result[Main]) # {}
    /\ \E x \in HookPanics(result[Main]) : result[Main].errs = <<x>>

\* Start was returning the error of a factory when a shutdown hook panicked.
ErrorThenPanicSeen ==
    /\ Returned(Main, "Start")
    /\ \E f \in Fs : failures[f] > 0
    /\ HookPanics(result[Main]) # {}
    /\ result[Main].kind = "panic"

(***************************************************************************)
(* Lifecycle events                                                       *)
(***************************************************************************)


\* The name of the last lifecycle event that was triggered, "" when none.
RECURSIVE LastLifecycle(_)
LastLifecycle(evs) ==
    IF evs = <<>> THEN ""
    ELSE IF evs[Len(evs)].name \in EventNames THEN evs[Len(evs)].name
    ELSE LastLifecycle(Front(evs))

\* The errors of the Close hooks that have run, in the order of the log.
RECURSIVE CloseErrors(_)
CloseErrors(log) ==
    IF log = <<>> THEN <<>>
    ELSE LET l == log[Len(log)]
         IN  IF l.e THEN Append(CloseErrors(Front(log)), E("CloseError", l.f, l.o))
             ELSE CloseErrors(Front(log))

HookPanicLogged ==
    \E k \in 1..Len(closeLog) :
       /\ closeLog[k].a = "hook"
       /\ factories[closeLog[k].f].outKinds[closeLog[k].o] = "closerP"

\* The step is taken inside Start and invokes the function of a factory.
StartInvokes == \E p \in Procs : InCall(p, {"Start"}) /\ stack'[p] # stack[p] /\ calls' # calls

\* The step runs a Close hook.
HookRuns == Len(closeLog') > Len(closeLog) /\ closeLog'[Len(closeLog')].a = "hook"

\* Factories are invoked by Start between its two events, and hooks are run
\* between the two events of Close.
EventsAroundWork ==
    /\ StartInvokes => LastLifecycle(triggered) = ContainerStarting
    /\ HookRuns => LastLifecycle(triggered) = ContainerClosing

\* A Start that has returned without a panic, its ContainerStarting
\* handlers having succeeded, has triggered ContainerStarted with the error
\* of spawnFactories.
StartedCarriesError ==
    \A p \in Procs :
       Returned(p, "Start") /\ Trigger(ContainerStarting) = <<>> =>
          \/ result[p].kind = "panic"
          \/ /\ result[p].kind = "ok"
             /\ \E k \in 1..Len(triggered) : triggered[k] = NewEvent(ContainerStarted, <<>>)
          \/ /\ result[p].kind = "err"
             /\ \/ result[p].errs = Trigger(ContainerStarted)
                \/ Trigger(ContainerStarted) = <<>>
             /\ \E k \in 1..Len(triggered) :
                   /\ triggered[k].name = ContainerStarted
                   /\ Trigger(ContainerStarted) = <<>> => triggered[k].args = result[p].errs

\* C28 as stated: factories are invoked by Start after ContainerStarting
\* and before ContainerStarted, Close hooks are run after ContainerClosing
\* and before ContainerClosed, and ContainerStarted and ContainerClosed are
\* triggered with the start and close error, also when it is not nil.
C28_EventsAroundWork ==
    /\ [][EventsAroundWork]_vars
    /\ [](StartedCarriesError)
    /\ [](closer = "done" /\ Trigger(ContainerClosing) = <<>> /\ ~HookPanicLogged =>
            \E k \in 1..Len(triggered) :
               triggered[k] = NewEvent(ContainerClosed, CloseErrors(closeLog)))

\* What holds of C28: the order of events and work, the ContainerStarted
\* event with its error, and a ContainerClosed event exactly when no Close
\* hook has failed: it never carries an error.
EventsAroundWorkNoCloseError ==
    /\ [][EventsAroundWork]_vars
    /\ [](StartedCarriesError)
    /\ [](closer = "done" /\ Trigger(ContainerClosing) = <<>> /\ ~HookPanicLogged =>
            IF CloseErrors(closeLog) = <<>>
            THEN \E k \in 1..Len(triggered) : triggered[k] = NewEvent(ContainerClosed, <<>>)
            ELSE \A k \in 1..Len(triggered) : triggered[k].name # ContainerClosed)

\* Close has completed after a failing hook.
CloseErrorSeen ==
    /\ closer = "done"
    /\ CloseErrors(closeLog) # <<>>
    /\ Trigger(ContainerClosing) = <<>>

(***************************************************************************)
(* Events.Trigger                                                         *)
(***************************************************************************)
\* What Trigger has to have done with the handlers hs for the arguments
\* args: every handler called once, in the order of subscription.
ExpectedCalls(hs, args) ==
    [k \in 1..Len(hs) |-> [h |-> k, invoked |-> callHandler(hs[k], args, k).invoked]]

\* The step in which the Trigger called by p returns.
TriggerReturns(p) == OnTop(p, "Trigger", "loop") /\ Idle(p)'

MismatchNotInvoked ==
    \A p \in Procs :
       Returned(p, "Trigger") =>
          \A k \in 1..Len(result[p].vals) :
             ~result[p].vals[k].invoked <=>
                E("HandlerArgTypeMismatchError", 0, k) \in Range(result[p].errs)

\* Handlers subscribed under another name are left alone: Trigger has
\* returned without a call although a handler is subscribed.
OtherNameSeen ==
    /\ Returned(Main, "Trigger")
    /\ result[Main].vals = <<>>
    /\ Subscriptions = MaxHandlers

(***************************************************************************)
(* Resolver.Resolve and the variable behind the pointer                   *)
(***************************************************************************)
\* C31: when Resolve has returned an error (or panicked), the variable
\* holds what it held before the call; when it has succeeded, the variable
\* holds the resolved service.
C31_FailedResolveKeepsValue ==
    \A p \in Procs :
       Returned(p, "Resolve") =>
          IF result[p].kind = "ok"
          THEN result[p].v = result[p].vals
          ELSE result[p].v = result[p].v0

\* Resolve has failed on a variable that held a value of the caller, and
\* the variable still holds it.
C31_Witness ==
    /\ Returned(Main, "Resolve")
    /\ result[Main].kind = "err"
    /\ result[Main].v0 = <<Stored>>
    /\ result[Main].v = <<Stored>>

\* Resolve has succeeded on a variable that held a value of the caller,
\* and the variable holds the resolved service in its place.
ResolveOverwrites ==
    /\ Returned(Main, "Resolve")
    /\ result[Main].kind = "ok"
    /\ result[Main].v0 = <<Stored>>
    /\ result[Main].v # <<Stored>>

(***************************************************************************)
(* registry.sequence                                                      *)
(***************************************************************************)
\* C32: the sequence holds registered factories only, no factory twice, it
\* is not longer than the declaration list, and every factory in it is
\* marked spawned.
C32_SequenceWellFormed ==
    /\ \A k \in 1..Len(sequence) : sequence[k] \in Fs /\ spawned[sequence[k]]
    /\ \A a, b \in 1..Len(sequence) : a # b => sequence[a] # sequence[b]
    /\ Len(sequence) <= Len(factories)

\* Two goroutines have appended the same factory.
SequenceHoldsFactoryTwice ==
    \E a, b \in 1..Len(sequence) : a < b /\ sequence[a] = sequence[b]

(***************************************************************************)
(* factory.spawned and factory.outValues                                  *)
(***************************************************************************)
\* The factory whose output values process p is about to read in
\* resolveByType, spawnFactory having returned nil for it.
ReadFactory(p) == findFactoriesFor(Top(p).ty.t).records[Top(p).i]

\* C33: a resolver for which spawnFactory has returned nil, because it has
\* found the factory spawned or has spawned it, reads the complete list of
\* output values of the factory.
C33_SpawnedImpliesStored ==
    \A p \in Procs :
       OnTop(p, "rbt", "read") =>
          /\ spawned[ReadFactory(p)]
          /\ Len(outValues[ReadFactory(p)]) = Len(factories[ReadFactory(p)].outTypes)

\* A resolver has panicked on the empty list of output values of a factory
\* that another goroutine had marked spawned.
EmptyOutputsRead ==
    \E p \in Procs :
       /\ Returned(p, "Resolve")
       /\ result[p].kind = "panic"
       /\ result[p].errs = <<E("index out of range", 0, 0)>>

(***************************************************************************)
(* The depth guard of spawnFactory                                        *)
(***************************************************************************)
StackLimitReached(r) ==
    r.kind = "err" /\ E("ErrStackLimitReached", 4, 0) \in Range(r.errs)

\* The function of factory 4 is running, called from inside itself.
Reentered(p) ==
    Cardinality({k \in 1..Len(stack[p]) : stack[p][k].op = "func"}) > 1

\* C34: a call of Resolve returns, also when the resolution re-enters
\* itself; the depth of the stack stays within the limit (plus the frames
\* of the innermost resolution), and the resolution that re-entered itself
\* fails with ErrStackLimitReached.
C34_RecursionTerminates ==
    /\ [](\A p \in Procs : getStackDepth(stack[p]) < stackDepthLimit + 4)
    /\ [][\A p \in Procs : Reentered(p) /\ Idle(p)' => StackLimitReached(result'[p])]_vars
    /\ \A p \in Procs : [](~Idle(p) => <>Idle(p))

\* Resolve has failed with ErrStackLimitReached.
C34_Witness ==
    /\ Returned(Main, "Resolve")
    /\ StackLimitReached(result[Main])
    /\ calls[4] > 2

\* The error with which spawnFactory fails when startServiceFunc refuses a
\* value that isServiceFunc let through.
StartRefused(r) ==
    \E k \in 1..Len(r.errs) : r.errs[k].e = "failed to start factory func"

\* The function-valued outputs that are neither func() nor func() error, or
\* whose type has methods or a name.
OtherFuncKinds == {"fnInt", "fnStrStr", "fnMeth", "fnArg", "fnArgE", "fnNamed"}

\* The started values are service functions in the exact sense.
OnlyExactServiceFuncsStarted ==
    \A h \in DOMAIN svc : isServiceFuncExact(KindOf(h))

\* C35: only a func() or func() error output without methods is started in
\* the background and replaced by a handle; every other function-valued
\* output is stored unchanged: no factory fails because one of its outputs
\* could not be started, and once Start has returned without an error every
\* such output is stored, with no background run.
C35_OnlyServiceFuncsStarted ==
    /\ OnlyExactServiceFuncsStarted
    /\ \A p \in Procs : Idle(p) => ~StartRefused(result[p])
    /\ \A p \in Procs : Returned(p, "Start") /\ result[p].kind = "ok" =>
          \A f \in DOMAIN factories : \A o \in 1..Len(factories[f].outKinds) :
             factories[f].outKinds[o] \in OtherFuncKinds =>
                /\ spawned[f]
                /\ o <= Len(outValues[f])
                /\ outValues[f][o] \notin DOMAIN svc

\* The examples of function values that are stored as they are: func() int,
\* func(string) string and a function type with methods, injected into their
\* consumer and never started.
ListedFuncValuesKept ==
    \A f \in DOMAIN factories :
       spawned[f] /\ outValues[f] # <<>> =>
          \A o \in 1..Len(outValues[f]) :
             factories[f].outKinds[o] \in {"fnInt", "fnStrStr", "fnMeth"} =>
                outValues[f][o] \notin DOMAIN svc

ListedFuncValuesInjected ==
    \E f \in DOMAIN factories :
       /\ factories[f].inTypes = <<Plain("func() int"), Plain("func(string) string"),
                                   Plain("X")>>
       /\ spawned[f]
       /\ Returned(Main, "Start") /\ result[Main].kind = "ok"

\* A service function was started before a later output of the same factory
\* was refused: it runs although its factory is not spawned.
StartedThenRefused ==
    \E h \in DOMAIN svc : ~spawned[h[1]] /\ \E p \in Procs :
       Idle(p) /\ StartRefused(result[p])

\* C36: when every Close hook returns and every service function returns,
\* each call of Close returns in the end, whatever was resolved before and
\* however the resolutions were interleaved.
C36_CloseReturns ==
    \A p \in Procs : [](InCall(p, {"Close"}) => <>Idle(p))

\* closeFactories waits for a service function that it has awaited already:
\* nothing is sent on the channel of the handle a second time.
AwaitedTwice(p) ==
    /\ OnTop(p, "cf", "hooks")
    /\ Top(p).acc[Top(p).o] \in DOMAIN svc
    /\ svc[Top(p).acc[Top(p).o]] = "done"

CloseStuck == \E p \in Procs : AwaitedTwice(p)

\* Without a factory that stands twice in the sequence no handle is awaited
\* twice.
AwaitedTwiceNeedsDuplicate ==
    CloseStuck => \E i, j \in 1..Len(sequence) : i # j /\ sequence[i] = sequence[j]

\* The teardown has begun: the once of Close is taken.
TeardownBegun == closer # "idle"

\* Every call has returned and the container is closed.
AllReturnedClosed == closer = "done" /\ \A p \in Procs : Idle(p)

SpawnedAreClosed == \A f \in Fs : spawned[f] => cancelled[f]

NoSpawnInTeardown ==
    TeardownBegun => \A f \in Fs : calls'[f] = calls[f] /\ spawned'[f] = spawned[f]

\* C37: however Start, Resolve and Close are interleaved, every factory that
\* was spawned has been closed when the calls have returned and the
\* container is closed, and no factory is spawned once the teardown has
\* begun.
C37_SpawnedAreClosed ==
    /\ [](AllReturnedClosed => SpawnedAreClosed)
    /\ [][NoSpawnInTeardown]_vars

\* A factory is spawned and left: the container is closed, nobody runs, and
\* the context of the factory was never cancelled.
SpawnedAndLeft ==
    AllReturnedClosed /\ \E f \in Fs : spawned[f] /\ ~cancelled[f]

\* A service function runs in a container that is closed.
ServiceOutlivesContainer ==
    AllReturnedClosed /\ \E h \in DOMAIN svc : svc[h] = "running" /\ ~cancelled[h[1]]

\* The registry passes the three passes of the validation: New succeeds.
Validated ==
    \A f \in Fs : inputErrors(f) = <<>> /\ outputErrors(f) = <<>> /\ ~OnCycle(f)

NoFactoryFails == \A f \in Fs : failures[f] = 0 /\ ~Panics(f)

\* C38: when New has accepted the registry and no factory function fails,
\* Start succeeds: it reports neither a missing service nor the stack
\* limit, however long the chain of dependencies is and in whatever order
\* the factories are declared.
C38_ValidationSound ==
    Returned(Main, "Start") /\ Validated /\ NoFactoryFails =>
       result[Main].kind = "ok"

\* Start has failed with the stack limit on a validated chain.
StartHitsStackLimit ==
    /\ Returned(Main, "Start") /\ Validated /\ NoFactoryFails
    /\ \E k \in 1..Len(result[Main].errs) :
          result[Main].errs[k].e = "ErrStackLimitReached"

\* Declared dependency first, a chain of every length starts; declared
\* dependent first, the chains of fewer than 25 factories do.
ChainsThatStart ==
    Returned(Main, "Start") /\ result[Main].c0 = [f \in Fs |-> 0] =>
       /\ (\E n \in 1..MaxChain : factories = New(ChainReversed(n)))
             => result[Main].kind = "ok"
       /\ (\E n \in 1..24 : factories = New(Chain(n))) => result[Main].kind = "ok"

\* A chain of 24 factories, declared dependent first, has started.
LongChainStarts ==
    /\ Returned(Main, "Start") /\ result[Main].c0 = [f \in Fs |-> 0]
    /\ factories = New(Chain(24))
    /\ result[Main].kind = "ok"

\* The findings of the returned validation name the factories that reach
\* themselves, each one once, and no other factory.
CycleFindingsExact ==
    \A f \in Fs :
       Findings(E("ErrCircularDependency", f, 0)) = IF OnCycle(f) THEN 1 ELSE 0

\* C39: the validation reports ErrCircularDependency for a factory if and
\* only if the factory reaches itself through the producers of its inputs
\* (Optional and Multiple unwrapped, the context left out): New returns, a
\* factory on a cycle is reported once, and a factory that only depends on
\* a cycle is not reported.
C39_CycleReportedIffOnCycle ==
    <>(Returned(Main, "New") /\ CycleFindingsExact)

\* Whenever the validation returns, its findings are exact.
ReturnedFindingsExact == Returned(Main, "New") => CycleFindingsExact

\* The validation has returned for a registry with a cycle and a factory
\* that does not reach itself.
CycleAndBystanderReturned ==
    /\ Returned(Main, "New")
    /\ \E f, g \in Fs : OnCycle(f) /\ ~OnCycle(g) /\ g > 3
    /\ CycleFindingsExact

\* resolveByType has collected, for a type other than any, the handle of a
\* started service function.
HandleYielded(p) ==
    OnTop(p, "rbt", "next") /\ NotAssignable(Top(p).acc, Top(p).ty.t)

\* The call has ended in the panic of reflection about a value of the
\* wrong type.
TypePanic(r) ==
    r.kind = "panic" /\ E("reflect: value is not assignable", 0, 0) \in Range(r.errs)

\* C40: every value that is injected or resolved has the requested type:
\* resolveByType never yields the handle of a service function for the
\* func() or func() error type that its factory declares, and no call ends
\* in a type panic of reflection.
C40_ValuesHaveRequestedType ==
    \A p \in Procs :
       /\ ~HandleYielded(p)
       /\ Idle(p) => ~TypePanic(result[p])

\* Resolve(&fn) for fn of type func() error has panicked in value.Set.
ResolveTypePanics ==
    /\ Returned(Main, "Resolve") /\ result[Main].ty = Plain("func() error")
    /\ TypePanic(result[Main])

\* Start has panicked at the call of the consumer of the service function.
StartTypePanics ==
    /\ Returned(Main, "Start") /\ TypePanic(result[Main])
    /\ \E f \in Fs : factories[f].inTypes = <<Plain("func() error")>> /\ calls[f] = 0

\* The values resolved for the types that are not function types, and for
\* any, are the stored ones: no panic for the registry that declares any.
UntypedResolves ==
    factories = New(UntypedService) =>
       \A p \in Procs : ~HandleYielded(p) /\ (Idle(p) => ~TypePanic(result[p]))

UntypedStarted ==
    /\ factories = New(UntypedService)
    /\ Returned(Main, "Start") /\ result[Main].kind = "ok"
    /\ \E f \in Fs : factories[f].inTypes = <<Plain("any")>> /\ calls[f] = 1

====
